---- MODULE Spec2Model ----
(***************************************************************************)
(* Release decision engine of sleppa: the commit analyzer                  *)
(* (crates/sleppa_commit_analyzer) and the version tag                     *)
(* (crates/sleppa_versioner).  Strings are sequences of one-character      *)
(* strings, so that matching, parsing and formatting are computed          *)
(* character by character as the code's regular expressions and integer    *)
(* conversions compute them.                                               *)
(***************************************************************************)
EXTENDS Integers, Sequences, FiniteSets, TLC

VARIABLES
    \* ---- sleppa_versioner ----
    tag_input,     \* the &str handed to Tag::try_from
    tpc,           \* "start" | "parsed" | "rejected" | "panicked"
    tag_error,     \* the VersionerError of a rejected parse, or "none"
    tag,           \* the current Tag
    prev_tag,      \* the Tag the last increment was called on
    last_level,    \* the ReleaseAction of the last increment, or "none"
    n_incr,        \* number of increment calls made
    rendered,      \* the String Display produced for tag, or <<>>
    \* ---- sleppa_commit_analyzer ----
    rules,         \* CommitAnalyzerPlugin.configuration.release_rules
    ctx_commits,   \* the commits value held by the Context
    commits,       \* the local Vec<Commit> of run
    apc,           \* "idle" | "loop" | "done" | "error" | "panicked"
    idx,           \* loop position of run (number of commits visited)
    major_count,
    minor_count,
    patch_count,
    classified,    \* outcome of execute for each visited commit
    writes,        \* for each commit, how often run assigned its release_action
    result,        \* value returned by run
    \* ---- CommitAnalyzerPlugin::build ----
    cfg_path,      \* what the Context holds for the configuration file path
    cfg_file,      \* the file at that path: found or not, and its document
    bpc,           \* "start" | "parsed" | "built" | "failed"
    parsed,        \* what try_parse returned when called on the file directly
    build_error,   \* the error build returned, or "none"
    plugin_rules,  \* release_rules of the plugin build returned
    \* ---- VersionerPlugin::run ----
    v_ctx,         \* last tag, user and release action held by the Context
    vpc,           \* position of run and commit_tag
    v_error,       \* the error run returned, or "none"
    v_tag,         \* the Tag run computed
    git_log,       \* the shell commands executed so far
    \* ---- ReleaseRule::handle on its own ----
    h_rule,        \* the rule
    h_message,     \* the commit message, by its type, scope and description
    hpc,           \* "start" | "handled"
    h_result,      \* what handle returned
    \* ---- ChangelogPlugin ----
    cl_pending,    \* the commits the Context will hold at each run still to come
    cl_file,       \* the changelog file: whether it exists, and its content
    cl_commits,    \* the Vec<Commit> the last with_commits was given
    cl_sections,   \* ChangelogPlugin.sections
    cl_new_tag,    \* ChangelogPlugin.new_tag, by the number of the release
    cpc,           \* "idle" | "built" | "written" | "failed" | "panicked"
    cl_before,     \* the content of the file when the last serialize was called
    cl_entry,      \* the entry the last serialize had to write
    cl_error,      \* the error the last serialize returned, or "none"
    \* ---- execute called from several threads ----
    t_input,       \* the rule set and the collection before the threads start
    t_rules,       \* the rule set the threads share
    t_commits,     \* the collection the threads write the levels into
    t_owner,       \* for each commit, the thread it belongs to
    t_pending,     \* the positions of the commits not yet classified
    t_decision     \* the decision computed after the threads have joined

tag_vars == <<tag_input, tpc, tag_error, tag, prev_tag, last_level, n_incr, rendered>>
analyzer_vars == <<rules, ctx_commits, commits, apc, idx, major_count, minor_count,
                   patch_count, classified, writes, result>>
config_vars == <<cfg_path, cfg_file, bpc, parsed, build_error, plugin_rules>>
versioner_vars == <<v_ctx, vpc, v_error, v_tag, git_log>>
handle_vars == <<h_rule, h_message, hpc, h_result>>
changelog_vars == <<cl_pending, cl_file, cl_commits, cl_sections, cl_new_tag, cpc, cl_before,
                    cl_entry, cl_error>>
thread_vars == <<t_input, t_rules, t_commits, t_owner, t_pending, t_decision>>
vars == <<tag_vars, analyzer_vars, config_vars, versioner_vars, handle_vars, changelog_vars,
          thread_vars>>

(***************************************************************************)
(* Bounds of the model                                                     *)
(***************************************************************************)
\* Width of a tag component.  The code uses u64; the model keeps the
\* arithmetic modulo 2^TagBits with a small width.
TagBits == 4
\* Longest tag string enumerated over InputAlphabet.
MaxTagLen == 6
\* Number of increment calls made on one tag.
MaxIncrements == 2
\* Longest commit collection.
MaxCommits == 3
\* longest scope written between the parentheses of a message
MaxScopeLen == 3

(***************************************************************************)
(* Characters                                                              *)
(***************************************************************************)
Digit == {"0", "1", "2", "3", "4", "5", "6", "7", "8", "9"}
Lower == {"a", "b", "c", "d", "e", "f", "g", "h", "i", "j", "k", "l", "m",
          "n", "o", "p", "q", "r", "s", "t", "u", "v", "w", "x", "y", "z"}
\* \s of the regex crate (the members that occur in the model's messages)
IsSpace(c) == c \in {" ", "\t", "\n"}
\* . of the regex crate: any character but a line feed
AnyChar(c) == c # "\n"
\* [a-z0-9]
NotSpace(c) == c \notin {" ", "\t", "\n"}
\* [a-z0-9]
LowerOrDigit(c) == c \in Lower \cup Digit

RECURSIVE Pow2(_)
Pow2(n) == IF n = 0 THEN 1 ELSE 2 * Pow2(n - 1)
\* u64::MAX at the model's width
U64Max == Pow2(TagBits) - 1

Levels == {"Major", "Minor", "Patch"}

(***************************************************************************)
(* sleppa_versioner: Tag                                                   *)
(***************************************************************************)
DigitValue(c) == CASE c = "0" -> 0 [] c = "1" -> 1 [] c = "2" -> 2 [] c = "3" -> 3
                   [] c = "4" -> 4 [] c = "5" -> 5 [] c = "6" -> 6 [] c = "7" -> 7
                   [] c = "8" -> 8 [] c = "9" -> 9
DigitChar(d) == CASE d = 0 -> "0" [] d = 1 -> "1" [] d = 2 -> "2" [] d = 3 -> "3"
                  [] d = 4 -> "4" [] d = 5 -> "5" [] d = 6 -> "6" [] d = 7 -> "7"
                  [] d = 8 -> "8" [] d = 9 -> "9"

AllDigits(s, from, to) == \A q \in from..to : s[q] \in Digit

\* The positions <<i, j>> of the two separators in every way the text can match
\* "^v{1}(?P<major>[0-9]+).(?P<minor>[0-9]+).(?P<patch>[0-9]+)$": each separator
\* is an unescaped ".", which matches any character but a line feed.
TagSplits(s) ==
    {p \in (1..Len(s)) \X (1..Len(s)) :
        /\ Len(s) >= 6
        /\ s[1] = "v"
        /\ p[1] >= 3 /\ p[2] >= p[1] + 2 /\ p[2] <= Len(s) - 1
        /\ AllDigits(s, 2, p[1] - 1)
        /\ AnyChar(s[p[1]])
        /\ AllDigits(s, p[1] + 1, p[2] - 1)
        /\ AnyChar(s[p[2]])
        /\ AllDigits(s, p[2] + 1, Len(s))}

\* regex.captures: the leftmost-first match of greedy groups takes the longest
\* major that still lets the rest match, then the longest minor.
TagCaptures(s) ==
    LET S == TagSplits(s)
        i == CHOOSE a \in {p[1] : p \in S} : \A b \in {p[1] : p \in S} : b <= a
        j == CHOOSE a \in {p[2] : p \in {q \in S : q[1] = i}} :
                 \A b \in {p[2] : p \in {q \in S : q[1] = i}} : b <= a
    IN [major |-> SubSeq(s, 2, i - 1),
        minor |-> SubSeq(s, i + 1, j - 1),
        patch |-> SubSeq(s, j + 1, Len(s))]

\* str::parse::<u64> on a non-empty string of ASCII digits: the value, or -1
\* for ParseIntError (PosOverflow).  acc is the value of the digits read so far.
RECURSIVE ParseDigits(_, _, _)
ParseDigits(s, k, acc) ==
    IF k > Len(s) THEN acc
    ELSE LET next == acc * 10 + DigitValue(s[k])
         IN IF next > U64Max THEN -1 ELSE ParseDigits(s, k + 1, next)

ParseU64(s) == ParseDigits(s, 1, 0)

\* Tag::try_from
TryFromResult(s) ==
    IF TagSplits(s) = {}
    THEN [ok |-> FALSE, error |-> "ErrorNoMatch", tag |-> [major |-> 0, minor |-> 0, patch |-> 0]]
    ELSE LET cap == TagCaptures(s)
             ma == ParseU64(cap.major)
             mi == ParseU64(cap.minor)
             pa == ParseU64(cap.patch)
         IN IF ma < 0 \/ mi < 0 \/ pa < 0
            THEN [ok |-> FALSE, error |-> "ParsingError",
                  tag |-> [major |-> 0, minor |-> 0, patch |-> 0]]
            ELSE [ok |-> TRUE, error |-> "none",
                  tag |-> [major |-> ma, minor |-> mi, patch |-> pa]]

\* {} of format! on a u64: decimal, no sign, no padding
RECURSIVE FormatU64(_)
FormatU64(n) ==
    IF n < 10 THEN <<DigitChar(n)>>
    ELSE FormatU64(n \div 10) \o <<DigitChar(n % 10)>>

DisplaySwapped(t) ==
    <<"v">> \o FormatU64(t.major) \o <<".">> \o FormatU64(t.patch) \o <<".">> \o FormatU64(t.minor)

\* impl Display for Tag
Display(t) ==
    <<"v">> \o FormatU64(t.major) \o <<".">> \o FormatU64(t.minor) \o <<".">> \o FormatU64(t.patch)

AddOneWithoutWrap(x, overflow_checks) == x + 1

\* x += 1 on a u64: with overflow checks (debug profile) the addition panics at
\* u64::MAX, without them (release profile) it wraps.  -1 stands for the panic.
AddOne(x, overflow_checks) ==
    IF x = U64Max
    THEN IF overflow_checks THEN -1 ELSE (x + 1) % Pow2(TagBits)
    ELSE x + 1

\* Tag::increment: the returned Tag, or panicked
increment(t, release_action, overflow_checks) ==
    CASE release_action = "Major" ->
            LET m == AddOne(t.major, overflow_checks)
            IN [panicked |-> m < 0, tag |-> [major |-> m, minor |-> 0, patch |-> 0]]
      [] release_action = "Minor" ->
            LET m == AddOne(t.minor, overflow_checks)
            IN [panicked |-> m < 0, tag |-> [major |-> t.major, minor |-> m, patch |-> 0]]
      [] release_action = "Patch" ->
            LET m == AddOne(t.patch, overflow_checks)
            IN [panicked |-> m < 0, tag |-> [major |-> t.major, minor |-> t.minor, patch |-> m]]

\* ---- inputs of the tag model ----
InputAlphabet == {"v", "0", "1", ".", "x"}

RECURSIVE StringsOfLen(_)
StringsOfLen(n) ==
    IF n = 0 THEN {<<>>}
    ELSE {Append(s, c) : s \in StringsOfLen(n - 1), c \in InputAlphabet}

ShortStrings == UNION {StringsOfLen(n) : n \in 0..MaxTagLen}

\* Every string "v<a>.<b>.<c>" with components up to one past the largest value
\* of the integer type, written without leading zeros.
CanonicalStrings ==
    {<<"v">> \o FormatU64(a) \o <<".">> \o FormatU64(b) \o <<".">> \o FormatU64(c) :
        a \in 0..(U64Max + 1), b \in 0..(U64Max + 1), c \in 0..(U64Max + 1)}

\* "v<n>x0x0" and "v0x<n>x0" with n one past the largest value of the integer
\* type: no dots, and a number that does not fit
MisshapenStrings ==
    {<<"v">> \o FormatU64(U64Max + 1) \o <<"x", "0", "x", "0">>,
     <<"v", "0", "x">> \o FormatU64(U64Max + 1) \o <<"x", "0">>}

TagInputs == ShortStrings \cup CanonicalStrings \cup MisshapenStrings

NoTag == [major |-> 0, minor |-> 0, patch |-> 0]

TagInit ==
    /\ tag_input \in TagInputs
    /\ tpc = "start"
    /\ tag_error = "none"
    /\ tag = NoTag
    /\ prev_tag = NoTag
    /\ last_level = "none"
    /\ n_incr = 0
    /\ rendered = <<>>
    \* no run of the analyzer takes part
    /\ rules = <<>>
    /\ ctx_commits = [present |-> FALSE, list |-> <<>>]
    /\ commits = <<>>
    /\ apc = "idle"
    /\ idx = 0
    /\ major_count = 0
    /\ minor_count = 0
    /\ patch_count = 0
    /\ classified = <<>>
    /\ writes = <<>>
    /\ result = "unset"
    /\ cfg_path = "absent"
    /\ cfg_file = <<>>
    /\ bpc = "start"
    /\ parsed = <<>>
    /\ build_error = "none"
    /\ plugin_rules = <<>>
    /\ v_ctx = <<>>
    /\ vpc = "start"
    /\ v_error = "none"
    /\ v_tag = <<>>
    /\ git_log = <<>>
    /\ h_rule = <<>>
    /\ h_message = <<>>
    /\ hpc = "start"
    /\ h_result = "none"
    /\ cl_pending = <<>>
    /\ cl_file = [exists |-> FALSE, content |-> <<>>]
    /\ cl_commits = <<>>
    /\ cl_sections = <<>>
    /\ cl_new_tag = 0
    /\ cpc = "idle"
    /\ cl_before = <<>>
    /\ cl_entry = <<>>
    /\ cl_error = "none"
    /\ t_input = <<>>
    /\ t_rules = <<>>
    /\ t_commits = <<>>
    /\ t_owner = <<>>
    /\ t_pending = {}
    /\ t_decision = "unset"

\* the numbers at which a tag changes its length or reaches the largest value
BoundaryNumbers == {0, 1, 9, 10, U64Max - 1, U64Max}

\* the well-formed strings "v<a>.<b>.<c>" of the boundary numbers
BoundaryStrings ==
    {<<"v">> \o FormatU64(a) \o <<".">> \o FormatU64(b) \o <<".">> \o FormatU64(c) :
        a \in BoundaryNumbers, b \in BoundaryNumbers, c \in BoundaryNumbers}

BoundaryTagInit ==
    /\ tag_input \in BoundaryStrings
    /\ tpc = "start"
    /\ tag_error = "none"
    /\ tag = NoTag
    /\ prev_tag = NoTag
    /\ last_level = "none"
    /\ n_incr = 0
    /\ rendered = <<>>
    \* no run of the analyzer takes part
    /\ rules = <<>>
    /\ ctx_commits = [present |-> FALSE, list |-> <<>>]
    /\ commits = <<>>
    /\ apc = "idle"
    /\ idx = 0
    /\ major_count = 0
    /\ minor_count = 0
    /\ patch_count = 0
    /\ classified = <<>>
    /\ writes = <<>>
    /\ result = "unset"
    /\ cfg_path = "absent"
    /\ cfg_file = <<>>
    /\ bpc = "start"
    /\ parsed = <<>>
    /\ build_error = "none"
    /\ plugin_rules = <<>>
    /\ v_ctx = <<>>
    /\ vpc = "start"
    /\ v_error = "none"
    /\ v_tag = <<>>
    /\ git_log = <<>>
    /\ h_rule = <<>>
    /\ h_message = <<>>
    /\ hpc = "start"
    /\ h_result = "none"
    /\ cl_pending = <<>>
    /\ cl_file = [exists |-> FALSE, content |-> <<>>]
    /\ cl_commits = <<>>
    /\ cl_sections = <<>>
    /\ cl_new_tag = 0
    /\ cpc = "idle"
    /\ cl_before = <<>>
    /\ cl_entry = <<>>
    /\ cl_error = "none"
    /\ t_input = <<>>
    /\ t_rules = <<>>
    /\ t_commits = <<>>
    /\ t_owner = <<>>
    /\ t_pending = {}
    /\ t_decision = "unset"

\* Tag::try_from(tag_input)
TryFrom ==
    /\ tpc = "start"
    /\ LET r == TryFromResult(tag_input)
       IN /\ tpc' = IF r.ok THEN "parsed" ELSE "rejected"
          /\ tag_error' = r.error
          /\ tag' = r.tag
    /\ UNCHANGED <<tag_input, prev_tag, last_level, n_incr, rendered>>
    /\ UNCHANGED <<analyzer_vars, config_vars, versioner_vars, handle_vars,
                 changelog_vars, thread_vars>>

\* tag.increment(&release_action); the result replaces tag
Increment ==
    /\ tpc = "parsed"
    /\ n_incr < MaxIncrements
    /\ \E release_action \in Levels, overflow_checks \in BOOLEAN :
          LET r == increment(tag, release_action, overflow_checks)
          IN /\ tpc' = IF r.panicked THEN "panicked" ELSE "parsed"
             /\ tag' = IF r.panicked THEN tag ELSE r.tag
             /\ prev_tag' = tag
             /\ last_level' = release_action
    /\ n_incr' = n_incr + 1
    /\ rendered' = <<>>
    /\ UNCHANGED <<tag_input, tag_error>>
    /\ UNCHANGED <<analyzer_vars, config_vars, versioner_vars, handle_vars,
                 changelog_vars, thread_vars>>

\* format!("{}", tag)
Render ==
    /\ tpc = "parsed"
    /\ rendered = <<>>
    /\ rendered' = Display(tag)
    /\ UNCHANGED <<tag_input, tpc, tag_error, tag, prev_tag, last_level, n_incr>>
    /\ UNCHANGED <<analyzer_vars, config_vars, versioner_vars, handle_vars,
                 changelog_vars, thread_vars>>

(***************************************************************************)
(* sleppa_commit_analyzer: release rules                                   *)
(***************************************************************************)
T_break == <<"b", "r", "e", "a", "k">>
T_build == <<"b", "u", "i", "l", "d">>
T_ci == <<"c", "i">>
T_docs == <<"d", "o", "c", "s">>
T_feat == <<"f", "e", "a", "t">>
T_fix == <<"f", "i", "x">>
T_perf == <<"p", "e", "r", "f">>
T_refac == <<"r", "e", "f", "a", "c">>
T_sec == <<"s", "e", "c">>
T_style == <<"s", "t", "y", "l", "e">>
T_test == <<"t", "e", "s", "t">>

\* A grammar is kept as what Regex::new makes of it: whether it compiles, and for
\* the grammars of the shape
\*   ^(?P<type>t1|t2|...){1}(?P<scope>\(\S.*\S\))?:\s.*[a-z0-9]$
\* the alternation of types; empty says that the grammar is the empty string.
GrammarMinorWithFix == [wellformed |-> TRUE, empty |-> FALSE,
                        types |-> {T_build, T_ci, T_docs, T_feat, T_fix}]
GrammarPatchWithoutRefac == [wellformed |-> TRUE, empty |-> FALSE,
                             types |-> {T_fix, T_perf, T_sec, T_style, T_test}]
GrammarMajor == [wellformed |-> TRUE, empty |-> FALSE, types |-> {T_break}]
GrammarMinor == [wellformed |-> TRUE, empty |-> FALSE,
                 types |-> {T_build, T_ci, T_docs, T_feat}]
GrammarPatch == [wellformed |-> TRUE, empty |-> FALSE,
                 types |-> {T_fix, T_perf, T_refac, T_sec, T_style, T_test}]
\* a grammar Regex::new rejects, such as "^(?P<type>break" (unclosed group)
GrammarMalformed == [wellformed |-> FALSE, empty |-> FALSE, types |-> {}]
\* the grammar "": Regex::new accepts it and it matches every message
GrammarEmpty == [wellformed |-> TRUE, empty |-> TRUE, types |-> {}]

\* CommitAnalyzerConfiguration::default()
DefaultRules ==
    [l \in Levels |->
        [format |-> "Regex",
         grammar |-> CASE l = "Major" -> GrammarMajor
                       [] l = "Minor" -> GrammarMinor
                       [] l = "Patch" -> GrammarPatch]]

IsPrefix(t, m) == Len(t) <= Len(m) /\ SubSeq(m, 1, Len(t)) = t

\* ":\s.*[a-z0-9]$" matched from position p of m
MatchSeparatorAndDescription(m, p) ==
    /\ p + 2 <= Len(m)
    /\ m[p] = ":"
    /\ IsSpace(m[p + 1])
    /\ \A q \in (p + 2)..(Len(m) - 1) : AnyChar(m[q])
    /\ LowerOrDigit(m[Len(m)])

\* "(?P<scope>\(\S.*\S\))?" followed by the rest, matched from position p of m;
\* k is the position of the closing parenthesis.
MatchScopeAndRest(m, p) ==
    \/ MatchSeparatorAndDescription(m, p)
    \/ \E k \in (p + 3)..Len(m) :
          /\ m[p] = "("
          /\ ~IsSpace(m[p + 1])
          /\ \A q \in (p + 2)..(k - 2) : AnyChar(m[q])
          /\ ~IsSpace(m[k - 1])
          /\ m[k] = ")"
          /\ MatchSeparatorAndDescription(m, k + 1)

\* regex.captures(message) is Some
RegexCaptures(grammar, m) ==
    \/ grammar.empty
    \/ \E t \in grammar.types : IsPrefix(t, m) /\ MatchScopeAndRest(m, Len(t) + 1)

\* ReleaseRule::handle: "Ok", the ConfigurationError returned, or "Panic" for
\* unimplemented!()
handle(rule, message) ==
    IF rule.format = "Regex"
    THEN IF ~rule.grammar.wellformed THEN "RegexError"
         ELSE IF RegexCaptures(rule.grammar, message) THEN "Ok"
         ELSE "ErrorNoMatch"
    ELSE "Panic"

executePatchFirst(release_rule, message) ==
    LET hp == handle(release_rule["Patch"], message)
        hi == handle(release_rule["Minor"], message)
        hm == handle(release_rule["Major"], message)
    IN IF hp = "Panic" THEN "Panic"
       ELSE IF hp = "Ok" THEN "Patch"
       ELSE IF hi = "Panic" THEN "Panic"
       ELSE IF hi = "Ok" THEN "Minor"
       ELSE IF hm = "Panic" THEN "Panic"
       ELSE IF hm = "Ok" THEN "Major"
       ELSE "ErrorNoMatching"

\* CommitAnalyzerPlugin::execute: the ReleaseAction, "ErrorNoMatching", or
\* "Panic" when a handle call it makes panics
execute(release_rule, message) ==
    LET hm == handle(release_rule["Major"], message)
        hi == handle(release_rule["Minor"], message)
        hp == handle(release_rule["Patch"], message)
    IN IF hm = "Panic" THEN "Panic"
       ELSE IF hm = "Ok" THEN "Major"
       ELSE IF hi = "Panic" THEN "Panic"
       ELSE IF hi = "Ok" THEN "Minor"
       ELSE IF hp = "Panic" THEN "Panic"
       ELSE IF hp = "Ok" THEN "Patch"
       ELSE "ErrorNoMatching"

DecisionByLargestCount(major, minor, patch) ==
    IF major = 0 /\ minor = 0 /\ patch = 0 THEN "None"
    ELSE IF major >= minor /\ major >= patch THEN "Major"
    ELSE IF minor >= patch THEN "Minor"
    ELSE "Patch"

\* the value run returns from its three counters
Decision(major, minor, patch) ==
    IF major > 0 THEN "Major"
    ELSE IF minor > 0 THEN "Minor"
    ELSE IF patch > 0 THEN "Patch"
    ELSE "None"

CountAfterKeepingOnlyLatest(count, level, outcome) ==
    IF outcome = level THEN count + 1
    ELSE IF outcome \in Levels THEN 0
    ELSE count

\* one counter of run after the match arm taken for outcome: the counter of
\* level goes up by one when the commit was classified as level
CountAfter(count, level, outcome) ==
    IF outcome = level THEN count + 1 ELSE count

AnnotateEveryLevelAsMajor(commit, outcome) ==
    IF outcome \in Levels
    THEN [commit EXCEPT !.release_action = "Major"]
    ELSE commit

AnnotateUnmatchedAsPatch(commit, outcome) ==
    [commit EXCEPT !.release_action = IF outcome \in Levels THEN outcome ELSE "Patch"]

\* the match arm of run, had it also cleared the message of the commit
AnnotateDroppingMessage(commit, outcome) ==
    IF outcome \in Levels
    THEN [commit EXCEPT !.release_action = outcome, !.message = <<>>]
    ELSE commit

\* the arm of run's match taken for one commit: the commit as it is left
Annotate(commit, outcome) ==
    IF outcome \in Levels
    THEN [commit EXCEPT !.release_action = outcome]
    ELSE commit

\* run as a function of the rule set and the collection: the loop from commit i
\* on with the three counters, then the decision. status is "Ok" when run
\* returns and "Panic" when an execute call panics.
RECURSIVE RunLoop(_, _, _, _, _, _)
RunLoop(rs, cs, i, major, minor, patch) ==
    IF i > Len(cs)
    THEN [status |-> "Ok", decision |-> Decision(major, minor, patch), commits |-> cs]
    ELSE LET outcome == execute(rs, cs[i].message)
         IN IF outcome = "Panic"
            THEN [status |-> "Panic", decision |-> "None", commits |-> cs]
            ELSE RunLoop(rs, [cs EXCEPT ![i] = Annotate(@, outcome)], i + 1,
                         CountAfter(major, "Major", outcome),
                         CountAfter(minor, "Minor", outcome),
                         CountAfter(patch, "Patch", outcome))

aggregate(rs, cs) == RunLoop(rs, cs, 1, 0, 0, 0)

\* ---- inputs of the analyzer model ----
\* "break: drop api"
MsgBreak ==
    <<"b", "r", "e", "a", "k", ":", " ", "d", "r", "o", "p", " ", "a", "p", "i">>
\* "feat(ui): add x"
MsgFeatScope ==
    <<"f", "e", "a", "t", "(", "u", "i", ")", ":", " ", "a", "d", "d", " ", "x">>
\* "fix: typo"
MsgFix ==
    <<"f", "i", "x", ":", " ", "t", "y", "p", "o">>
\* "chore: nothing conventional"
MsgChore ==
    <<"c", "h", "o", "r", "e", ":", " ", "n", "o", "t", "h", "i", "n", "g", " ", "c", "o", "n", "v", "e", "n", "t", "i", "o", "n", "a", "l">>
\* "feat: add X"
MsgFeatUpper ==
    <<"f", "e", "a", "t", ":", " ", "a", "d", "d", " ", "X">>

\* "break: drop old API"
MsgBreakUpper ==
    <<"b", "r", "e", "a", "k", ":", " ", "d", "r", "o", "p", " ", "o", "l", "d", " ", "A", "P", "I">>

Messages == {MsgBreak, MsgFeatScope, MsgFix, MsgChore, MsgFeatUpper}

\* the messages of the runs under the default rules
DefaultRunMessages == {MsgBreakUpper, MsgFeatUpper, MsgFix, MsgBreak, MsgFeatScope, MsgChore}

\* The rules a level can hold: each of the default grammars (so that the rules of
\* two levels can accept the same message), a grammar that does not compile, and
\* a rule of format Peg.
RuleChoices ==
    {[format |-> "Regex", grammar |-> GrammarMajor],
     [format |-> "Regex", grammar |-> GrammarMinor],
     [format |-> "Regex", grammar |-> GrammarPatch],
     [format |-> "Regex", grammar |-> GrammarMalformed],
     [format |-> "Peg", grammar |-> GrammarMajor]}

RuleSets == [Levels -> RuleChoices]

\* Commit::new(message, sha): the hash is the position in the collection
NewCommit(message, sha) == [hash |-> sha, message |-> message, release_action |-> "None"]

CommitLists ==
    UNION {{[i \in 1..n |-> NewCommit(ms[i], i)] : ms \in [1..n -> Messages]} :
              n \in 0..MaxCommits}

AnalyzerInit ==
    /\ rules \in RuleSets
    /\ ctx_commits \in {[present |-> FALSE, list |-> <<>>]}
                       \cup {[present |-> TRUE, list |-> cs] : cs \in CommitLists}
    /\ commits = <<>>
    /\ apc = "idle"
    /\ idx = 0
    /\ major_count = 0
    /\ minor_count = 0
    /\ patch_count = 0
    /\ classified = <<>>
    /\ writes = <<>>
    /\ result = "unset"
    \* no tag takes part
    /\ tag_input = <<>>
    /\ tpc = "start"
    /\ tag_error = "none"
    /\ tag = NoTag
    /\ prev_tag = NoTag
    /\ last_level = "none"
    /\ n_incr = 0
    /\ rendered = <<>>
    /\ cfg_path = "absent"
    /\ cfg_file = <<>>
    /\ bpc = "start"
    /\ parsed = <<>>
    /\ build_error = "none"
    /\ plugin_rules = <<>>
    /\ v_ctx = <<>>
    /\ vpc = "start"
    /\ v_error = "none"
    /\ v_tag = <<>>
    /\ git_log = <<>>
    /\ h_rule = <<>>
    /\ h_message = <<>>
    /\ hpc = "start"
    /\ h_result = "none"
    /\ cl_pending = <<>>
    /\ cl_file = [exists |-> FALSE, content |-> <<>>]
    /\ cl_commits = <<>>
    /\ cl_sections = <<>>
    /\ cl_new_tag = 0
    /\ cpc = "idle"
    /\ cl_before = <<>>
    /\ cl_entry = <<>>
    /\ cl_error = "none"
    /\ t_input = <<>>
    /\ t_rules = <<>>
    /\ t_commits = <<>>
    /\ t_owner = <<>>
    /\ t_pending = {}
    /\ t_decision = "unset"

DefaultRunCommitLists ==
    UNION {{[i \in 1..n |-> NewCommit(ms[i], i)] : ms \in [1..n -> DefaultRunMessages]} :
              n \in 0..MaxCommits}

\* a plugin built without a configuration file: its rules are default()
DefaultRulesInit ==
    /\ rules = DefaultRules
    /\ ctx_commits \in {[present |-> FALSE, list |-> <<>>]}
                       \cup {[present |-> TRUE, list |-> cs] : cs \in DefaultRunCommitLists}
    /\ commits = <<>>
    /\ apc = "idle"
    /\ idx = 0
    /\ major_count = 0
    /\ minor_count = 0
    /\ patch_count = 0
    /\ classified = <<>>
    /\ writes = <<>>
    /\ result = "unset"
    /\ tag_input = <<>>
    /\ tpc = "start"
    /\ tag_error = "none"
    /\ tag = NoTag
    /\ prev_tag = NoTag
    /\ last_level = "none"
    /\ n_incr = 0
    /\ rendered = <<>>
    /\ cfg_path = "absent"
    /\ cfg_file = <<>>
    /\ bpc = "start"
    /\ parsed = <<>>
    /\ build_error = "none"
    /\ plugin_rules = <<>>
    /\ v_ctx = <<>>
    /\ vpc = "start"
    /\ v_error = "none"
    /\ v_tag = <<>>
    /\ git_log = <<>>
    /\ h_rule = <<>>
    /\ h_message = <<>>
    /\ hpc = "start"
    /\ h_result = "none"
    /\ cl_pending = <<>>
    /\ cl_file = [exists |-> FALSE, content |-> <<>>]
    /\ cl_commits = <<>>
    /\ cl_sections = <<>>
    /\ cl_new_tag = 0
    /\ cpc = "idle"
    /\ cl_before = <<>>
    /\ cl_entry = <<>>
    /\ cl_error = "none"
    /\ t_input = <<>>
    /\ t_rules = <<>>
    /\ t_commits = <<>>
    /\ t_owner = <<>>
    /\ t_pending = {}
    /\ t_decision = "unset"

\* run, up to the loop: the counters and context.load_commits()
RunStart ==
    /\ apc = "idle"
    /\ major_count' = 0
    /\ minor_count' = 0
    /\ patch_count' = 0
    /\ IF ctx_commits.present
       THEN /\ commits' = ctx_commits.list
            /\ writes' = [i \in 1..Len(ctx_commits.list) |-> 0]
            /\ apc' = "loop"
            /\ result' = result
       ELSE /\ commits' = commits
            /\ writes' = writes
            /\ apc' = "error"
            /\ result' = "InvalidContext"
    /\ UNCHANGED <<rules, ctx_commits, idx, classified>>
    /\ UNCHANGED <<tag_vars, config_vars, versioner_vars, handle_vars,
                 changelog_vars, thread_vars>>

\* one iteration of "for commit in &mut commits"
RunVisit ==
    /\ apc = "loop"
    /\ idx < Len(commits)
    /\ LET outcome == execute(rules, commits[idx + 1].message)
       IN /\ classified' = Append(classified, outcome)
          /\ IF outcome = "Panic"
             THEN /\ apc' = "panicked"
                  /\ UNCHANGED <<commits, idx, major_count, minor_count, patch_count, writes>>
             ELSE /\ apc' = apc
                  /\ idx' = idx + 1
                  /\ commits' = [commits EXCEPT ![idx + 1] = Annotate(@, outcome)]
                  /\ writes' = [writes EXCEPT ![idx + 1] =
                                   IF outcome \in Levels THEN @ + 1 ELSE @]
                  /\ major_count' = CountAfter(major_count, "Major", outcome)
                  /\ minor_count' = CountAfter(minor_count, "Minor", outcome)
                  /\ patch_count' = CountAfter(patch_count, "Patch", outcome)
    /\ UNCHANGED <<rules, ctx_commits, result>>
    /\ UNCHANGED <<tag_vars, config_vars, versioner_vars, handle_vars,
                 changelog_vars, thread_vars>>

\* run, after the loop: the commits go back into the context and the decision
\* is returned
RunFinish ==
    /\ apc = "loop"
    /\ idx = Len(commits)
    /\ ctx_commits' = [present |-> TRUE, list |-> commits]
    /\ result' = Decision(major_count, minor_count, patch_count)
    /\ apc' = "done"
    /\ UNCHANGED <<rules, commits, idx, major_count, minor_count, patch_count, classified,
                   writes>>
    /\ UNCHANGED <<tag_vars, config_vars, versioner_vars, handle_vars,
                 changelog_vars, thread_vars>>

(***************************************************************************)
(* sleppa_commit_analyzer: the configuration file and build                *)
(***************************************************************************)
\* The keys a release_rules table of the file can hold: the three names serde
\* gives the variants of ReleaseAction (rename_all = "lowercase"), and the
\* capitalised "Major".
ConfigKeys == {"major", "minor", "patch", "Major"}

LevelKeys == {"major", "minor", "patch"}

\* the key of a level in the file
KeyOf(l) == CASE l = "Major" -> "major" [] l = "Minor" -> "minor" [] l = "Patch" -> "patch"

DefaultGrammarOfKey(k) ==
    CASE k \in {"major", "Major"} -> GrammarMajor
      [] k = "minor" -> GrammarMinor
      [] k = "patch" -> GrammarPatch

\* The entries written under a key: format "regex" with the default grammar of
\* the level or with the grammar "", format "peg", and the misspelt format
\* "rege". The capitalised key holds what major would hold by default.
EntriesOfKey(k) ==
    IF k = "Major"
    THEN {[format |-> "regex", grammar |-> DefaultGrammarOfKey(k)]}
    ELSE {[format |-> "regex", grammar |-> DefaultGrammarOfKey(k)],
          [format |-> "regex", grammar |-> GrammarEmpty],
          [format |-> "peg", grammar |-> DefaultGrammarOfKey(k)],
          [format |-> "rege", grammar |-> DefaultGrammarOfKey(k)]}

AllEntries == UNION {EntriesOfKey(k) : k \in ConfigKeys}

\* the release_rules tables: any subset of the keys, each with one entry
ReleaseRulesTables ==
    UNION {{t \in [ks -> AllEntries] : \A k \in ks : t[k] \in EntriesOfKey(k)} :
              ks \in SUBSET ConfigKeys}

\* the toml documents: without a release_rules table, or with one
Documents ==
    {[section |-> FALSE, release_rules |-> <<>>]}
    \cup {[section |-> TRUE, release_rules |-> t] : t \in ReleaseRulesTables}

\* what the path leads to: no file, or a file holding a document
Files ==
    {[found |-> FALSE, doc |-> [section |-> FALSE, release_rules |-> <<>>]]}
    \cup {[found |-> TRUE, doc |-> d] : d \in Documents}

\* what the Context holds for the path of the configuration file: no
\* Configuration under COMMIT_ANALYZER_KEY, no COMMIT_ANALYZER_FILE in it, a
\* value that is not a string, or a string
ContextPaths == {"no_configuration", "no_file_entry", "not_a_string", "string"}

DeserializesAnyFormat(doc) ==
    /\ doc.section
    /\ \A k \in DOMAIN doc.release_rules : k \in LevelKeys

DeserializesSkippingUnknownKeys(doc) ==
    /\ doc.section
    /\ \A k \in DOMAIN doc.release_rules \cap LevelKeys :
          doc.release_rules[k].format \in {"regex", "peg"}

\* toml::from_str::<CommitAnalyzerConfiguration> is Ok: the field release_rules
\* is there, every key of it is a variant name of ReleaseAction and every format
\* a variant name of ReleaseRuleFormat
Deserializes(doc) ==
    /\ doc.section
    /\ \A k \in DOMAIN doc.release_rules :
          /\ k \in LevelKeys
          /\ doc.release_rules[k].format \in {"regex", "peg"}

\* the HashMap<ReleaseAction, ReleaseRule> toml::from_str builds
FromToml(doc) ==
    [l \in {x \in Levels : KeyOf(x) \in DOMAIN doc.release_rules} |->
        [format |-> IF doc.release_rules[KeyOf(l)].format = "regex" THEN "Regex" ELSE "Peg",
         grammar |-> doc.release_rules[KeyOf(l)].grammar]]

LastMissing(release_rules) ==
    IF "Patch" \notin DOMAIN release_rules THEN "patch is missing"
    ELSE IF "Minor" \notin DOMAIN release_rules THEN "minor is missing"
    ELSE IF "Major" \notin DOMAIN release_rules THEN "major is missing"
    ELSE "none"

\* the if-chain of try_parse: the message of the IncorrectReleaseAction it
\* returns, or "none"
FirstMissing(release_rules) ==
    IF "Major" \notin DOMAIN release_rules THEN "major is missing"
    ELSE IF "Minor" \notin DOMAIN release_rules THEN "minor is missing"
    ELSE IF "Patch" \notin DOMAIN release_rules THEN "patch is missing"
    ELSE "none"

\* try_parse(path), by what the path leads to
try_parse(file) ==
    IF ~file.found
    THEN [ok |-> FALSE, error |-> "InputOutputError", message |-> "none", rules |-> <<>>]
    ELSE IF ~Deserializes(file.doc)
    THEN [ok |-> FALSE, error |-> "ErrorReadingToml", message |-> "none", rules |-> <<>>]
    ELSE IF FirstMissing(FromToml(file.doc)) # "none"
    THEN [ok |-> FALSE, error |-> "IncorrectReleaseAction",
          message |-> FirstMissing(FromToml(file.doc)), rules |-> <<>>]
    ELSE [ok |-> TRUE, error |-> "none", message |-> "none", rules |-> FromToml(file.doc)]

load_fileAlwaysOk(path) == [ok |-> TRUE, error |-> "none"]

\* CommitAnalyzerPlugin::load_file(context)
load_file(path) ==
    IF path = "string"
    THEN [ok |-> TRUE, error |-> "none"]
    ELSE [ok |-> FALSE, error |-> "InvalidContext"]

buildFallingBackToDefault(path, file) ==
    IF load_file(path).ok /\ try_parse(file).ok
    THEN [ok |-> TRUE, error |-> "none", message |-> "none", rules |-> try_parse(file).rules]
    ELSE [ok |-> TRUE, error |-> "none", message |-> "none", rules |-> DefaultRules]

\* CommitAnalyzerPlugin::build(context)
build(path, file) ==
    IF load_file(path).ok
    THEN try_parse(file)
    ELSE [ok |-> TRUE, error |-> "none", message |-> "none", rules |-> DefaultRules]

ConfigInit ==
    /\ cfg_path \in ContextPaths
    /\ cfg_file \in Files
    /\ bpc = "start"
    /\ parsed = <<>>
    /\ build_error = "none"
    /\ plugin_rules = <<>>
    /\ tag_input = <<>>
    /\ tpc = "start"
    /\ tag_error = "none"
    /\ tag = NoTag
    /\ prev_tag = NoTag
    /\ last_level = "none"
    /\ n_incr = 0
    /\ rendered = <<>>
    /\ rules = <<>>
    /\ ctx_commits = [present |-> FALSE, list |-> <<>>]
    /\ commits = <<>>
    /\ apc = "idle"
    /\ idx = 0
    /\ major_count = 0
    /\ minor_count = 0
    /\ patch_count = 0
    /\ classified = <<>>
    /\ writes = <<>>
    /\ result = "unset"
    /\ v_ctx = <<>>
    /\ vpc = "start"
    /\ v_error = "none"
    /\ v_tag = <<>>
    /\ git_log = <<>>
    /\ h_rule = <<>>
    /\ h_message = <<>>
    /\ hpc = "start"
    /\ h_result = "none"
    /\ cl_pending = <<>>
    /\ cl_file = [exists |-> FALSE, content |-> <<>>]
    /\ cl_commits = <<>>
    /\ cl_sections = <<>>
    /\ cl_new_tag = 0
    /\ cpc = "idle"
    /\ cl_before = <<>>
    /\ cl_entry = <<>>
    /\ cl_error = "none"
    /\ t_input = <<>>
    /\ t_rules = <<>>
    /\ t_commits = <<>>
    /\ t_owner = <<>>
    /\ t_pending = {}
    /\ t_decision = "unset"

\* try_parse called on the path of the file
TryParse ==
    /\ bpc = "start"
    /\ parsed' = try_parse(cfg_file)
    /\ bpc' = "parsed"
    /\ UNCHANGED <<cfg_path, cfg_file, build_error, plugin_rules>>
    /\ UNCHANGED <<tag_vars, analyzer_vars, versioner_vars, handle_vars,
                 changelog_vars, thread_vars>>

\* CommitAnalyzerPlugin::build(context)
Build ==
    /\ bpc = "start"
    /\ LET b == build(cfg_path, cfg_file)
       IN /\ bpc' = IF b.ok THEN "built" ELSE "failed"
          /\ build_error' = b.error
          /\ plugin_rules' = b.rules
    /\ UNCHANGED <<cfg_path, cfg_file, parsed>>
    /\ UNCHANGED <<tag_vars, analyzer_vars, versioner_vars, handle_vars,
                 changelog_vars, thread_vars>>

(***************************************************************************)
(* sleppa_commit_analyzer: ReleaseRule::handle on conventional headers     *)
(***************************************************************************)
\* the types named in the grammars of default()
DefaultTypes ==
    {T_break, T_build, T_ci, T_docs, T_feat, T_fix, T_perf, T_refac, T_sec, T_style, T_test}

ScopeAlphabet == {"a", " "}

\* what stands between the type and the colon: nothing, or parentheses around
\* a text of up to MaxScopeLen characters
Scopes ==
    {[present |-> FALSE, text |-> <<>>]}
    \cup {[present |-> TRUE, text |-> t] :
             t \in UNION {[1..n -> ScopeAlphabet] : n \in 0..MaxScopeLen}}

\* "add x" and "add X"
Descriptions == {<<"a", "d", "d", " ", "x">>, <<"a", "d", "d", " ", "X">>}

\* types of no default rule: "chore", and "feature", which begins with feat
T_chore == <<"c", "h", "o", "r", "e">>
T_feature == <<"f", "e", "a", "t", "u", "r", "e">>

HeaderTypes == DefaultTypes \cup {T_chore, T_feature}

\* what stands between the type/scope and the description: ": ", ":" and a tab,
\* ":" alone, " " alone
Separators == {<<":", " ">>, <<":", "\t">>, <<":">>, <<" ">>}

\* the headers: gap says that a space stands between the type and what follows
Headers ==
    [type : HeaderTypes, gap : BOOLEAN, scope : Scopes, separator : Separators,
     description : Descriptions]

\* the message "<type>(<scope>): <description>" or "<type>: <description>",
\* with the gap and separator of the header
MessageText(h) ==
    h.type
    \o (IF h.gap THEN <<" ">> ELSE <<>>)
    \o (IF h.scope.present THEN <<"(">> \o h.scope.text \o <<")">> ELSE <<>>)
    \o h.separator
    \o h.description

HandleInit ==
    /\ h_rule \in {DefaultRules[l] : l \in Levels}
    /\ h_message \in Headers
    /\ hpc = "start"
    /\ h_result = "none"
    /\ tag_input = <<>>
    /\ tpc = "start"
    /\ tag_error = "none"
    /\ tag = NoTag
    /\ prev_tag = NoTag
    /\ last_level = "none"
    /\ n_incr = 0
    /\ rendered = <<>>
    /\ rules = <<>>
    /\ ctx_commits = [present |-> FALSE, list |-> <<>>]
    /\ commits = <<>>
    /\ apc = "idle"
    /\ idx = 0
    /\ major_count = 0
    /\ minor_count = 0
    /\ patch_count = 0
    /\ classified = <<>>
    /\ writes = <<>>
    /\ result = "unset"
    /\ cfg_path = "absent"
    /\ cfg_file = <<>>
    /\ bpc = "start"
    /\ parsed = <<>>
    /\ build_error = "none"
    /\ plugin_rules = <<>>
    /\ v_ctx = <<>>
    /\ vpc = "start"
    /\ v_error = "none"
    /\ v_tag = <<>>
    /\ git_log = <<>>
    /\ cl_pending = <<>>
    /\ cl_file = [exists |-> FALSE, content |-> <<>>]
    /\ cl_commits = <<>>
    /\ cl_sections = <<>>
    /\ cl_new_tag = 0
    /\ cpc = "idle"
    /\ cl_before = <<>>
    /\ cl_entry = <<>>
    /\ cl_error = "none"
    /\ t_input = <<>>
    /\ t_rules = <<>>
    /\ t_commits = <<>>
    /\ t_owner = <<>>
    /\ t_pending = {}
    /\ t_decision = "unset"

\* rule.handle(&commit)
Handle ==
    /\ hpc = "start"
    /\ h_result' = handle(h_rule, MessageText(h_message))
    /\ hpc' = "handled"
    /\ UNCHANGED <<h_rule, h_message>>
    /\ UNCHANGED <<tag_vars, analyzer_vars, config_vars, versioner_vars,
                 changelog_vars, thread_vars>>

(***************************************************************************)
(* sleppa_versioner: VersionerPlugin::run and commit_tag                   *)
(***************************************************************************)
\* What the map of the Context holds under a key: no entry ("missing_key"), a
\* Value of another variant ("other_value"), or a value of the variant asked
\* for ("value").
\* Context::load_*: self.map[KEY] panics without an entry, as_* returns None for
\* another variant.
ContextLoad(kind) ==
    IF kind = "missing_key" THEN "Panic"
    ELSE IF kind = "other_value" THEN "None"
    ELSE "Some"

\* the entry of a ReleaseAction: its kind
KindOfAction(entry) == IF entry \in Levels THEN "value" ELSE entry

\* "v3.2.1", "v3.1", the tag with the largest major, and one past it
LastTagIdentifiers ==
    {<<"v", "3", ".", "2", ".", "1">>,
     <<"v", "3", ".", "1">>,
     <<"v">> \o FormatU64(U64Max) \o <<".", "0", ".", "0">>,
     <<"v">> \o FormatU64(U64Max + 1) \o <<".", "0", ".", "0">>}

\* the contexts run is given, and the overflow checks of the build
VersionerContexts ==
    [last_tag : {[kind |-> "missing_key", identifier |-> <<>>],
                 [kind |-> "other_value", identifier |-> <<>>]}
                \cup {[kind |-> "value", identifier |-> t] : t \in LastTagIdentifiers},
     user : {"missing_key", "other_value", "value"},
     release_action : {"missing_key", "other_value"} \cup Levels,
     overflow_checks : BOOLEAN]

\* the shell commands of commit_tag, in order
GitCommands == <<"git config user.name", "git config user.email", "git tag", "git push --tags">>

\* run up to the call of commit_tag: "Panic", the error returned, or
\* "commit_tag" with the new tag
run_before_commit_tag(ctx) ==
    IF ContextLoad(ctx.last_tag.kind) = "Panic"
    THEN [to |-> "Panic", error |-> "none", tag |-> NoTag]
    ELSE IF ContextLoad(ctx.last_tag.kind) = "None"
    THEN [to |-> "Err", error |-> "InvalidContext", tag |-> NoTag]
    ELSE IF ContextLoad(ctx.user) = "Panic" THEN [to |-> "Panic", error |-> "none", tag |-> NoTag]
    ELSE IF ContextLoad(ctx.user) = "None"
    THEN [to |-> "Err", error |-> "InvalidContext", tag |-> NoTag]
    ELSE IF ContextLoad(KindOfAction(ctx.release_action)) = "Panic"
    THEN [to |-> "Panic", error |-> "none", tag |-> NoTag]
    ELSE IF ContextLoad(KindOfAction(ctx.release_action)) = "None"
    THEN [to |-> "Err", error |-> "InvalidContext", tag |-> NoTag]
    ELSE IF ~TryFromResult(ctx.last_tag.identifier).ok
    THEN [to |-> "Err", error |-> TryFromResult(ctx.last_tag.identifier).error, tag |-> NoTag]
    ELSE LET new_tag == increment(TryFromResult(ctx.last_tag.identifier).tag,
                                  ctx.release_action,
                                  ctx.overflow_checks)
         IN IF new_tag.panicked
            THEN [to |-> "Panic", error |-> "none", tag |-> NoTag]
            ELSE [to |-> "commit_tag", error |-> "none", tag |-> new_tag.tag]

VersionerInit ==
    /\ v_ctx \in VersionerContexts
    /\ vpc = "start"
    /\ v_error = "none"
    /\ v_tag = NoTag
    /\ git_log = <<>>
    /\ tag_input = <<>>
    /\ tpc = "start"
    /\ tag_error = "none"
    /\ tag = NoTag
    /\ prev_tag = NoTag
    /\ last_level = "none"
    /\ n_incr = 0
    /\ rendered = <<>>
    /\ rules = <<>>
    /\ ctx_commits = [present |-> FALSE, list |-> <<>>]
    /\ commits = <<>>
    /\ apc = "idle"
    /\ idx = 0
    /\ major_count = 0
    /\ minor_count = 0
    /\ patch_count = 0
    /\ classified = <<>>
    /\ writes = <<>>
    /\ result = "unset"
    /\ cfg_path = "absent"
    /\ cfg_file = <<>>
    /\ bpc = "start"
    /\ parsed = <<>>
    /\ build_error = "none"
    /\ plugin_rules = <<>>
    /\ h_rule = <<>>
    /\ h_message = <<>>
    /\ hpc = "start"
    /\ h_result = "none"
    /\ cl_pending = <<>>
    /\ cl_file = [exists |-> FALSE, content |-> <<>>]
    /\ cl_commits = <<>>
    /\ cl_sections = <<>>
    /\ cl_new_tag = 0
    /\ cpc = "idle"
    /\ cl_before = <<>>
    /\ cl_entry = <<>>
    /\ cl_error = "none"
    /\ t_input = <<>>
    /\ t_rules = <<>>
    /\ t_commits = <<>>
    /\ t_owner = <<>>
    /\ t_pending = {}
    /\ t_decision = "unset"

\* VersionerPlugin::run, up to the call of commit_tag
VersionerRun ==
    /\ vpc = "start"
    /\ LET r == run_before_commit_tag(v_ctx)
       IN /\ vpc' = CASE r.to = "Panic" -> "panicked"
                      [] r.to = "Err" -> "error"
                      [] r.to = "commit_tag" -> "commit_tag"
          /\ v_error' = r.error
          /\ v_tag' = r.tag
    /\ UNCHANGED <<v_ctx, git_log>>
    /\ UNCHANGED <<tag_vars, analyzer_vars, config_vars, handle_vars,
                 changelog_vars, thread_vars>>

\* one Command::new("sh") of commit_tag: the shell is spawned and the command
\* executed, or the spawn fails (expect panics for the first command, `?`
\* returns the I/O error for the others); after the last command run returns
\* Ok(new_tag)
CommitTagCommand ==
    /\ vpc = "commit_tag"
    /\ \E spawned \in BOOLEAN :
          IF spawned
          THEN /\ git_log' = Append(git_log, GitCommands[Len(git_log) + 1])
               /\ vpc' = IF Len(git_log) + 1 = Len(GitCommands) THEN "returned" ELSE vpc
               /\ v_error' = v_error
          ELSE /\ git_log' = git_log
               /\ vpc' = IF Len(git_log) = 0 THEN "panicked" ELSE "error"
               /\ v_error' = IF Len(git_log) = 0 THEN v_error ELSE "IoError"
    /\ UNCHANGED <<v_ctx, v_tag>>
    /\ UNCHANGED <<tag_vars, analyzer_vars, config_vars, handle_vars,
                 changelog_vars, thread_vars>>

(***************************************************************************)
(* sleppa_primitives: the order of ReleaseAction                           *)
(* sleppa_changelog: with_commits and serialize                            *)
(***************************************************************************)
MaxReleases == 2

\* the number of bytes of the hash serialize slices for the text of the link
HashPrefixLen == 8

\* the order derive(PartialOrd, Ord) would give had the variants been declared
\* in the reverse order
DiscriminantReversed(level) ==
    CASE level = "Major" -> 2
      [] level = "Minor" -> 1
      [] level = "Patch" -> 0

\* derive(PartialOrd, Ord) on ReleaseAction: the variants are ordered by their
\* discriminants, that is by the order of their declaration
Discriminant(level) ==
    CASE level = "Major" -> 0
      [] level = "Minor" -> 1
      [] level = "Patch" -> 2

\* Ord::cmp of two ReleaseAction values
cmp(a, b) ==
    IF Discriminant(a) < Discriminant(b) THEN "Less"
    ELSE IF Discriminant(a) = Discriminant(b) THEN "Equal"
    ELSE "Greater"

\* iteration over a BTreeMap: its keys in ascending order of cmp
KeysInOrder(map) ==
    [i \in 1..Cardinality(DOMAIN map) |->
        CHOOSE k \in DOMAIN map :
            Cardinality({j \in DOMAIN map : cmp(j, k) = "Less"}) = i - 1]

\* the commits a release can hold, by what with_commits and serialize read of
\* them: the level, and the length of the hash (a git hash has 40 characters,
\* but Commit.hash is any String)
CommitKinds ==
    {[release_action |-> l, hash_len |-> 40] : l \in Levels \cup {"None"}}
        \cup {[release_action |-> "Patch", hash_len |-> 7]}

\* a Vec<Commit> of n commits; the hash stands for the position, and the message
\* goes with the hash
CommitsOfLength(n) ==
    {[i \in 1..n |-> [hash |-> i, hash_len |-> k[i].hash_len,
                      release_action |-> k[i].release_action]] :
        k \in [1..n -> CommitKinds]}

\* what one writeln! of serialize puts into the file
HeaderLine(new_tag) ==
    [kind |-> "header", release |-> new_tag, level |-> "None", hash |-> 0, hash_len |-> 0]

TitleLine(level) ==
    [kind |-> "title", release |-> 0, level |-> level, hash |-> 0, hash_len |-> 0]

CommitLine(commit) ==
    [kind |-> "commit", release |-> 0, level |-> commit.release_action,
     hash |-> commit.hash, hash_len |-> commit.hash_len]

BlankLines ==
    [kind |-> "blank", release |-> 0, level |-> "None", hash |-> 0, hash_len |-> 0]

\* a line that no serialize wrote
ForeignText ==
    [kind |-> "text", release |-> 0, level |-> "None", hash |-> 0, hash_len |-> 0]

\* the file before the first release: absent, empty, or holding some text
FileStates ==
    {[exists |-> FALSE, content |-> <<>>],
     [exists |-> TRUE, content |-> <<>>],
     [exists |-> TRUE, content |-> <<ForeignText>>]}

\* with_commits: the commits of each level in the order of the collection, the
\* commits without a level left out, under the three keys
with_commits(commit_list) ==
    [l \in Levels |-> SelectSeq(commit_list, LAMBDA c : c.release_action = l)]

\* the loop of serialize over the sections from the i-th key on: the title of
\* a section that has commits, then one line for each of its commits
RECURSIVE SectionLines(_, _, _)
SectionLines(sections, keys, i) ==
    IF i > Len(keys)
    THEN <<>>
    ELSE LET section == sections[keys[i]]
         IN (IF section # <<>> THEN <<TitleLine(keys[i])>> ELSE <<>>)
               \o [j \in 1..Len(section) |-> CommitLine(section[j])]
               \o SectionLines(sections, keys, i + 1)

\* everything serialize writes before the previous content, one element for
\* each writeln!
EntryLines(sections, new_tag) ==
    <<HeaderLine(new_tag)>>
        \o SectionLines(sections, KeysInOrder(sections), 1)
        \o <<BlankLines>>

\* the first line whose formatting panics: &commit.hash[0..8] on a hash
\* shorter than eight bytes; 0 when there is none
FirstShortHash(lines) ==
    LET short == {i \in 1..Len(lines) :
                     lines[i].kind = "commit" /\ lines[i].hash_len < HashPrefixLen}
    IN IF short = {} THEN 0 ELSE CHOOSE i \in short : \A j \in short : i <= j

\* where an input/output operation of serialize can fail: nowhere; before the
\* file is truncated ("open": try_exists, File::open, read_to_string,
\* create_dir_all; "create": File::create); at the n-th writeln!; or at write_all
\* after n lines of the previous content went out
Faults(file, lines) ==
    {[at |-> a, n |-> 0] : a \in {"nowhere", "open", "create"}}
        \cup {[at |-> "write", n |-> k] : k \in 1..Len(lines)}
        \cup {[at |-> "write_all", n |-> k] : k \in 0..(Len(file.content) - 1)}

\* serialize: the file it leaves and how it ends
serialize(file, sections, new_tag, fault) ==
    LET lines == EntryLines(sections, new_tag)
        short == FirstShortHash(lines)
    IN IF fault.at \in {"open", "create"}
       THEN [file |-> file, status |-> "IoError"]
       ELSE IF short # 0 /\ (fault.at # "write" \/ short <= fault.n)
       THEN [file |-> [exists |-> TRUE, content |-> SubSeq(lines, 1, short - 1)],
             status |-> "Panic"]
       ELSE IF fault.at = "write"
       THEN [file |-> [exists |-> TRUE, content |-> SubSeq(lines, 1, fault.n - 1)],
             status |-> "IoError"]
       ELSE IF fault.at = "write_all"
       THEN [file |-> [exists |-> TRUE,
                       content |-> lines \o SubSeq(file.content, 1, fault.n)],
             status |-> "IoError"]
       ELSE [file |-> [exists |-> TRUE, content |-> lines \o file.content],
             status |-> "Ok"]

\* a sequence of releases of at most one commit each, onto any file
ChangelogInit ==
    /\ cl_pending \in UNION {[1..n -> CommitsOfLength(0) \cup CommitsOfLength(1)] :
                                n \in 1..MaxReleases}
    /\ cl_file \in FileStates
    /\ cl_commits = <<>>
    /\ cl_sections = <<>>
    /\ cl_new_tag = 0
    /\ cpc = "idle"
    /\ cl_before = <<>>
    /\ cl_entry = <<>>
    /\ cl_error = "none"
    /\ tag_input = <<>>
    /\ tpc = "start"
    /\ tag_error = "none"
    /\ tag = NoTag
    /\ prev_tag = NoTag
    /\ last_level = "none"
    /\ n_incr = 0
    /\ rendered = <<>>
    /\ rules = <<>>
    /\ ctx_commits = [present |-> FALSE, list |-> <<>>]
    /\ commits = <<>>
    /\ apc = "idle"
    /\ idx = 0
    /\ major_count = 0
    /\ minor_count = 0
    /\ patch_count = 0
    /\ classified = <<>>
    /\ writes = <<>>
    /\ result = "unset"
    /\ cfg_path = "absent"
    /\ cfg_file = <<>>
    /\ bpc = "start"
    /\ parsed = <<>>
    /\ build_error = "none"
    /\ plugin_rules = <<>>
    /\ v_ctx = <<>>
    /\ vpc = "start"
    /\ v_error = "none"
    /\ v_tag = <<>>
    /\ git_log = <<>>
    /\ h_rule = <<>>
    /\ h_message = <<>>
    /\ hpc = "start"
    /\ h_result = "none"
    /\ t_input = <<>>
    /\ t_rules = <<>>
    /\ t_commits = <<>>
    /\ t_owner = <<>>
    /\ t_pending = {}
    /\ t_decision = "unset"

\* one release of up to MaxCommits commits, onto any file
SectionsInit ==
    /\ cl_pending \in {<<cs>> : cs \in UNION {CommitsOfLength(n) : n \in 0..MaxCommits}}
    /\ cl_file \in FileStates
    /\ cl_commits = <<>>
    /\ cl_sections = <<>>
    /\ cl_new_tag = 0
    /\ cpc = "idle"
    /\ cl_before = <<>>
    /\ cl_entry = <<>>
    /\ cl_error = "none"
    /\ tag_input = <<>>
    /\ tpc = "start"
    /\ tag_error = "none"
    /\ tag = NoTag
    /\ prev_tag = NoTag
    /\ last_level = "none"
    /\ n_incr = 0
    /\ rendered = <<>>
    /\ rules = <<>>
    /\ ctx_commits = [present |-> FALSE, list |-> <<>>]
    /\ commits = <<>>
    /\ apc = "idle"
    /\ idx = 0
    /\ major_count = 0
    /\ minor_count = 0
    /\ patch_count = 0
    /\ classified = <<>>
    /\ writes = <<>>
    /\ result = "unset"
    /\ cfg_path = "absent"
    /\ cfg_file = <<>>
    /\ bpc = "start"
    /\ parsed = <<>>
    /\ build_error = "none"
    /\ plugin_rules = <<>>
    /\ v_ctx = <<>>
    /\ vpc = "start"
    /\ v_error = "none"
    /\ v_tag = <<>>
    /\ git_log = <<>>
    /\ h_rule = <<>>
    /\ h_message = <<>>
    /\ hpc = "start"
    /\ h_result = "none"
    /\ t_input = <<>>
    /\ t_rules = <<>>
    /\ t_commits = <<>>
    /\ t_owner = <<>>
    /\ t_pending = {}
    /\ t_decision = "unset"

\* run, up to serialize: the commits of the Context go into the sections and
\* the new tag is taken over
WithCommits ==
    /\ cpc \in {"idle", "written"}
    /\ cl_pending # <<>>
    /\ cl_commits' = Head(cl_pending)
    /\ cl_pending' = Tail(cl_pending)
    /\ cl_sections' = with_commits(Head(cl_pending))
    /\ cl_new_tag' = cl_new_tag + 1
    /\ cpc' = "built"
    /\ UNCHANGED <<cl_file, cl_before, cl_entry, cl_error>>
    /\ UNCHANGED <<tag_vars, analyzer_vars, config_vars, versioner_vars, handle_vars,
                   thread_vars>>

\* one call of serialize on the path of the file
Serialize ==
    /\ cpc = "built"
    /\ \E fault \in Faults(cl_file, EntryLines(cl_sections, cl_new_tag)) :
          LET outcome == serialize(cl_file, cl_sections, cl_new_tag, fault)
          IN /\ cl_file' = outcome.file
             /\ cpc' = CASE outcome.status = "Ok" -> "written"
                         [] outcome.status = "Panic" -> "panicked"
                         [] OTHER -> "failed"
             /\ cl_error' = IF outcome.status = "IoError" THEN "IoError" ELSE "none"
    /\ cl_before' = cl_file.content
    /\ cl_entry' = EntryLines(cl_sections, cl_new_tag)
    /\ UNCHANGED <<cl_pending, cl_commits, cl_sections, cl_new_tag>>
    /\ UNCHANGED <<tag_vars, analyzer_vars, config_vars, versioner_vars, handle_vars,
                   thread_vars>>

(***************************************************************************)
(* sleppa_commit_analyzer: execute called from several threads             *)
(***************************************************************************)
\* the threads that classify the commits
Threads == {"t1", "t2"}

\* the rule sets the threads share: the default rules for Minor and Patch and
\* any Regex rule for Major, so that no execute call panics
ThreadRuleSets ==
    {rs \in RuleSets : /\ rs["Major"].format = "Regex"
                       /\ rs["Minor"] = DefaultRules["Minor"]
                       /\ rs["Patch"] = DefaultRules["Patch"]}

ThreadMessages == {MsgBreak, MsgFeatScope, MsgFix, MsgChore}

ThreadCommitLists ==
    UNION {{[i \in 1..n |-> NewCommit(ms[i], i)] : ms \in [1..n -> ThreadMessages]} :
              n \in 0..MaxCommits}

\* the body of the loop of run read against the default rules, whatever the
\* rule set handed in
classify_intoWithDefaultRules(release_rule, commit) ==
    Annotate(commit, execute(DefaultRules, commit.message))

\* the body of the loop of run for one commit: execute on its message against
\* the rule set, and the level written into the commit
classify_into(release_rule, commit) ==
    Annotate(commit, execute(release_rule, commit.message))

\* the number of commits of a collection that hold the level
LevelCount(cs, level) == Cardinality({i \in 1..Len(cs) : cs[i].release_action = level})

ThreadInit ==
    /\ t_input \in [rules : ThreadRuleSets, commits : ThreadCommitLists]
    /\ t_rules = t_input.rules
    /\ t_commits = t_input.commits
    /\ t_owner \in [1..Len(t_input.commits) -> Threads]
    /\ t_pending = 1..Len(t_input.commits)
    /\ t_decision = "unset"
    /\ tag_input = <<>>
    /\ tpc = "start"
    /\ tag_error = "none"
    /\ tag = NoTag
    /\ prev_tag = NoTag
    /\ last_level = "none"
    /\ n_incr = 0
    /\ rendered = <<>>
    /\ rules = <<>>
    /\ ctx_commits = [present |-> FALSE, list |-> <<>>]
    /\ commits = <<>>
    /\ apc = "idle"
    /\ idx = 0
    /\ major_count = 0
    /\ minor_count = 0
    /\ patch_count = 0
    /\ classified = <<>>
    /\ writes = <<>>
    /\ result = "unset"
    /\ cfg_path = "absent"
    /\ cfg_file = <<>>
    /\ bpc = "start"
    /\ parsed = <<>>
    /\ build_error = "none"
    /\ plugin_rules = <<>>
    /\ v_ctx = <<>>
    /\ vpc = "start"
    /\ v_error = "none"
    /\ v_tag = <<>>
    /\ git_log = <<>>
    /\ h_rule = <<>>
    /\ h_message = <<>>
    /\ hpc = "start"
    /\ h_result = "none"
    /\ cl_pending = <<>>
    /\ cl_file = [exists |-> FALSE, content |-> <<>>]
    /\ cl_commits = <<>>
    /\ cl_sections = <<>>
    /\ cl_new_tag = 0
    /\ cpc = "idle"
    /\ cl_before = <<>>
    /\ cl_entry = <<>>
    /\ cl_error = "none"

\* a thread classifies one of its own commits that is still pending: it reads
\* the shared rule set and the message, and writes the level of that commit
Classify ==
    /\ \E th \in Threads :
          \E i \in t_pending :
              /\ t_owner[i] = th
              /\ t_commits' = [t_commits EXCEPT ![i] = classify_into(t_rules, @)]
              /\ t_pending' = t_pending \ {i}
    /\ UNCHANGED <<t_input, t_rules, t_owner, t_decision>>
    /\ UNCHANGED <<tag_vars, analyzer_vars, config_vars, versioner_vars, handle_vars,
                   changelog_vars>>

\* after every thread has finished: the decision from the levels written
Join ==
    /\ t_pending = {}
    /\ t_decision = "unset"
    /\ t_decision' = Decision(LevelCount(t_commits, "Major"),
                              LevelCount(t_commits, "Minor"),
                              LevelCount(t_commits, "Patch"))
    /\ UNCHANGED <<t_input, t_rules, t_commits, t_owner, t_pending>>
    /\ UNCHANGED <<tag_vars, analyzer_vars, config_vars, versioner_vars, handle_vars,
                   changelog_vars>>

(***************************************************************************)
(* Specifications                                                          *)
(***************************************************************************)
TagNext == TryFrom \/ Increment \/ Render

AnalyzerNext == RunStart \/ RunVisit \/ RunFinish

\* the version tag: parse one string, then increment and render
SpecTag == TagInit /\ [][TagNext]_vars

\* the version tag, from the well-formed strings of the boundary numbers
SpecBoundaryTag == BoundaryTagInit /\ [][TagNext]_vars

\* the commit analyzer: one run over one context
SpecAnalyzer == AnalyzerInit /\ [][AnalyzerNext]_vars

\* the commit analyzer with the default rules
SpecDefaultRules == DefaultRulesInit /\ [][AnalyzerNext]_vars

ConfigNext == TryParse \/ Build

\* the configuration of the commit analyzer: one file, parsed or built from
SpecConfig == ConfigInit /\ [][ConfigNext]_vars

HandleNext == Handle

\* one default rule applied to one conventional header
SpecHandle == HandleInit /\ [][HandleNext]_vars

VersionerNext == VersionerRun \/ CommitTagCommand

\* the versioner: one run over one context
SpecVersioner == VersionerInit /\ [][VersionerNext]_vars

ChangelogNext == WithCommits \/ Serialize

\* successive releases written into one changelog file
SpecChangelog == ChangelogInit /\ [][ChangelogNext]_vars

\* one release, its sections and the entry written for it
SpecSections == SectionsInit /\ [][ChangelogNext]_vars

ThreadNext == Classify \/ Join

\* the commits of one collection classified by two threads in any interleaving
SpecThreads == ThreadInit /\ [][ThreadNext]_vars

(***************************************************************************)
(* Properties of the commit analyzer (SpecAnalyzer)                        *)
(***************************************************************************)
Visited == 1..Len(classified)

\* the levels whose rule accepts the message
MatchingLevels(rs, m) == {l \in Levels : handle(rs[l], m) = "Ok"}

\* the rules a classification of m evaluates: Major, then each next rule only
\* when the one before it returned without matching
EvaluatedLevels(rs, m) ==
    {"Major"}
    \cup (IF handle(rs["Major"], m) \in {"ErrorNoMatch", "RegexError"}
          THEN {"Minor"} ELSE {})
    \cup (IF /\ handle(rs["Major"], m) \in {"ErrorNoMatch", "RegexError"}
             /\ handle(rs["Minor"], m) \in {"ErrorNoMatch", "RegexError"}
          THEN {"Patch"} ELSE {})

\* a genuine classification fault: an evaluated rule has a grammar that does not
\* compile, or has the Peg format
GenuineFault(rs, m) ==
    \E l \in EvaluatedLevels(rs, m) : rs[l].format = "Peg" \/ ~rs[l].grammar.wellformed

PegSelected(rs, m) == \E l \in EvaluatedLevels(rs, m) : rs[l].format = "Peg"

LevelsOccurring == {execute(rules, commits[i].message) : i \in 1..Len(commits)}

\* C1: when run returns its decision, the decision is Major if at least one
\* commit of the collection classifies as Major, else Minor if at least one
\* classifies as Minor, else Patch if at least one classifies as Patch, else
\* None; the sizes of the counts play no part.
C1_DecisionIsHighestLevelOccurring ==
    apc = "done" =>
        result = IF "Major" \in LevelsOccurring THEN "Major"
                 ELSE IF "Minor" \in LevelsOccurring THEN "Minor"
                 ELSE IF "Patch" \in LevelsOccurring THEN "Patch"
                 ELSE "None"

\* a single Major commit among more Minor and Patch commits, decided Major
C1_Witness ==
    /\ apc = "done"
    /\ result = "Major"
    /\ major_count = 1
    /\ minor_count + patch_count > major_count

\* C2: when a genuine classification fault occurs on a visited commit, run ends
\* with an error: it neither returns a decision nor ends in any other way.
C2_FaultAbortsBatch ==
    (/\ apc \in {"done", "error", "panicked"}
     /\ \E i \in Visited : GenuineFault(rules, commits[i].message))
        => apc = "error"

\* C8: execute returns the level of the first rule, in the order Major, Minor,
\* Patch, that accepts the message (so the highest of the levels that accept
\* it), and ErrorNoMatching exactly when no rule accepts it.
C8_FirstMatchingRuleWins ==
    \A i \in Visited :
        classified[i] # "Panic" =>
            LET M == MatchingLevels(rules, commits[i].message)
            IN classified[i] = IF "Major" \in M THEN "Major"
                               ELSE IF "Minor" \in M THEN "Minor"
                               ELSE IF "Patch" \in M THEN "Patch"
                               ELSE "ErrorNoMatching"

\* a message accepted by the rules of Major and of Minor, classified Major
C8_Witness ==
    \E i \in Visited :
        /\ {"Major", "Minor"} \subseteq MatchingLevels(rules, commits[i].message)
        /\ classified[i] = "Major"

\* C9: when a rule of format Peg is selected for evaluation, the classification
\* yields the value NotImplemented and the program does not end abnormally.
C9_PegYieldsNotImplemented ==
    \A i \in Visited :
        PegSelected(rules, commits[i].message) =>
            classified[i] = "NotImplemented" /\ apc # "panicked"

\* C10: when no rule accepts the message of any commit of the collection, run
\* returns None without an error and every commit of the context still has no
\* release_action.
C10_NoMatchGivesNoneAndLeavesCommitsUnset ==
    (/\ apc \in {"done", "error"}
     /\ ctx_commits.present
     /\ \A i \in 1..Len(ctx_commits.list) :
           MatchingLevels(rules, ctx_commits.list[i].message) = {})
        => /\ apc = "done"
           /\ result = "None"
           /\ \A i \in 1..Len(ctx_commits.list) :
                 ctx_commits.list[i].release_action = "None"

\* a run over two or more commits none of which any rule accepts
C10_Witness ==
    /\ apc = "done"
    /\ Len(ctx_commits.list) >= 2
    /\ \A i \in 1..Len(ctx_commits.list) :
          MatchingLevels(rules, ctx_commits.list[i].message) = {}
    /\ result = "None"

\* C11: when run has returned, every commit of the collection was visited
\* exactly once, its release_action was assigned at most once, it holds level L
\* exactly when execute returns L for its message, and it is unset exactly when
\* execute returns ErrorNoMatching.
C11_LevelsWrittenFollowClassification ==
    apc = "done" =>
        /\ Len(classified) = Len(commits)
        /\ Len(ctx_commits.list) = Len(commits)
        /\ \A i \in 1..Len(commits) :
              LET c == ctx_commits.list[i]
              IN /\ classified[i] = execute(rules, c.message)
                 /\ writes[i] <= 1
                 /\ \A l \in Levels :
                       c.release_action = l <=> execute(rules, c.message) = l
                 /\ c.release_action = "None"
                       <=> execute(rules, c.message) = "ErrorNoMatching"

\* a finished run that assigned a Minor and a Patch level and left a commit unset
C11_Witness ==
    /\ apc = "done"
    /\ Len(commits) = 3
    /\ \E i, j, k \in 1..3 :
          /\ ctx_commits.list[i].release_action = "Minor" /\ writes[i] = 1
          /\ ctx_commits.list[j].release_action = "Patch" /\ writes[j] = 1
          /\ ctx_commits.list[k].release_action = "None" /\ writes[k] = 0

\* two collections that agree on everything but the levels: the same length,
\* and at each position the same hash and the same message
SameButLevels(before, after) ==
    /\ Len(after) = Len(before)
    /\ \A i \in 1..Len(before) :
          /\ after[i].hash = before[i].hash
          /\ after[i].message = before[i].message

\* C24: no step of run changes the rule set, and no step changes the
\* collection, the local one or the one held by the context, in anything but
\* the levels of its commits: the length, the order, the hashes and the
\* messages stay as they were; the local collection starts as the one loaded
\* from the context.
C24_RunChangesOnlyLevels ==
    [][/\ rules' = rules
       /\ ctx_commits'.present = ctx_commits.present
       /\ SameButLevels(ctx_commits.list, ctx_commits'.list)
       /\ apc = "idle" => (apc' = "loop" => commits' = ctx_commits.list)
       /\ apc # "idle" => SameButLevels(commits, commits')]_vars

\* a finished run over three commits that wrote a level into at least two of
\* them and left the other as it was
C24_Witness ==
    /\ apc = "done"
    /\ Len(ctx_commits.list) = 3
    /\ \E i, j, k \in 1..3 :
          /\ i # j
          /\ ctx_commits.list[i].release_action = "Major" /\ writes[i] = 1
          /\ ctx_commits.list[j].release_action = "Patch" /\ writes[j] = 1
          /\ ctx_commits.list[k].release_action = "None"
    /\ \A i \in 1..3 : ctx_commits.list[i].hash = i

\* the messages of the finished run, in the order of the collection
RunMessages == [i \in 1..Len(commits) |-> commits[i].message]

\* C12, as stated: under the default rules the commits "break: drop old API",
\* "feat: add X", "fix: typo" make run return Major and leave the levels Major,
\* Minor, Patch on the three commits.
C12_ExampleReturnsMajor ==
    (/\ apc = "done"
     /\ rules = DefaultRules
     /\ RunMessages = <<MsgBreakUpper, MsgFeatUpper, MsgFix>>)
        => /\ result = "Major"
           /\ ctx_commits.list[1].release_action = "Major"
           /\ ctx_commits.list[2].release_action = "Minor"
           /\ ctx_commits.list[3].release_action = "Patch"

\* C12, amended: under the default rules the commits "break: drop old API",
\* "feat: add X", "fix: typo" make run return Patch; the first two commits stay
\* unset (their descriptions end in an uppercase letter) and the third is Patch.
C12_ExampleReturnsPatch ==
    (/\ apc = "done"
     /\ rules = DefaultRules
     /\ RunMessages = <<MsgBreakUpper, MsgFeatUpper, MsgFix>>)
        => /\ result = "Patch"
           /\ ctx_commits.list[1].release_action = "None"
           /\ ctx_commits.list[2].release_action = "None"
           /\ ctx_commits.list[3].release_action = "Patch"

\* the run over the three commits of the example has returned
C12_Witness ==
    /\ apc = "done"
    /\ rules = DefaultRules
    /\ RunMessages = <<MsgBreakUpper, MsgFeatUpper, MsgFix>>

Orderings(n) == {p \in [1..n -> 1..n] : \A i, j \in 1..n : p[i] = p[j] => i = j}

\* the collection of the finished run as it was loaded, rearranged by p
Rearranged(p) ==
    [i \in 1..Len(commits) |-> NewCommit(commits[p[i]].message, commits[p[i]].hash)]

\* C13: when run has returned, run over any rearrangement of the same
\* collection under the same rules returns the same decision and leaves every
\* commit with the same level.
C13_DecisionIndependentOfOrder ==
    apc = "done" =>
        \A p \in Orderings(Len(commits)) :
            LET other == aggregate(rules, Rearranged(p))
            IN /\ other.status = "Ok"
               /\ other.decision = result
               /\ \A i \in 1..Len(commits) :
                     other.commits[i].release_action = commits[p[i]].release_action

\* a finished run over three commits of three different levels
C13_Witness ==
    /\ apc = "done"
    /\ Len(commits) = 3
    /\ {commits[i].release_action : i \in 1..3} = Levels
    /\ commits[1].release_action = "Patch"

(***************************************************************************)
(* Properties of the configuration (SpecConfig)                            *)
(***************************************************************************)
\* the document has the key Major in place of major
CapitalisedMajor(doc) ==
    /\ doc.section
    /\ "Major" \in DOMAIN doc.release_rules
    /\ "major" \notin DOMAIN doc.release_rules

\* the document of the file with the given key taken out of release_rules
WithoutKey(file, key) ==
    [file EXCEPT !.doc.release_rules =
        [k \in DOMAIN file.doc.release_rules \ {key} |-> file.doc.release_rules[k]]]

\* C14, as stated: try_parse of a document that has the key Major in place of
\* major fails with the missing-level error IncorrectReleaseAction("major is
\* missing").
C14_CapitalisedKeyReportedAsMissingMajor ==
    (bpc = "parsed" /\ cfg_file.found /\ CapitalisedMajor(cfg_file.doc))
        => /\ ~parsed.ok
           /\ parsed.error = "IncorrectReleaseAction"
           /\ parsed.message = "major is missing"

\* C14, amended: try_parse of a document that has the key Major in place of
\* major fails with the toml deserialization error (unknown variant), never
\* with the missing-level error and never with a rule set; the same document
\* without the key Major fails, when it deserializes, with the missing-level
\* error for major.
C14_CapitalisedKeyIsDeserializationError ==
    (bpc = "parsed" /\ cfg_file.found /\ CapitalisedMajor(cfg_file.doc))
        => /\ ~parsed.ok
           /\ parsed.error = "ErrorReadingToml"
           /\ parsed.rules = <<>>
           /\ LET omitted == try_parse(WithoutKey(cfg_file, "Major"))
              IN /\ ~omitted.ok
                 /\ omitted.error \in {"IncorrectReleaseAction", "ErrorReadingToml"}
                 /\ Deserializes(WithoutKey(cfg_file, "Major").doc)
                       => /\ omitted.error = "IncorrectReleaseAction"
                          /\ omitted.message = "major is missing"

\* try_parse has answered for the document with the keys Major, minor, patch
C14_Witness ==
    /\ bpc = "parsed"
    /\ cfg_file.found
    /\ cfg_file.doc.section
    /\ DOMAIN cfg_file.doc.release_rules = {"Major", "minor", "patch"}
    /\ \A k \in {"minor", "patch"} : cfg_file.doc.release_rules[k].format = "regex"
    /\ ~parsed.ok

\* the first of major, minor, patch that release_rules of the document lacks
FirstAbsentKey(doc) ==
    IF "major" \notin DOMAIN doc.release_rules THEN "major"
    ELSE IF "minor" \notin DOMAIN doc.release_rules THEN "minor"
    ELSE IF "patch" \notin DOMAIN doc.release_rules THEN "patch"
    ELSE "none"

MissingMessage(key) ==
    CASE key = "major" -> "major is missing"
      [] key = "minor" -> "minor is missing"
      [] key = "patch" -> "patch is missing"
      [] key = "none" -> "none"

\* C15, as stated: whenever one of major, minor, patch is absent from
\* release_rules of the document, try_parse fails with the missing-level error
\* naming the first absent level in the order major, minor, patch; it returns a
\* rule set only when all three are present.
C15_AbsentLevelAlwaysReportedAsMissing ==
    (bpc = "parsed" /\ cfg_file.found)
        => /\ FirstAbsentKey(cfg_file.doc) # "none"
                => /\ ~parsed.ok
                   /\ parsed.error = "IncorrectReleaseAction"
                   /\ parsed.message = MissingMessage(FirstAbsentKey(cfg_file.doc))
           /\ parsed.ok => FirstAbsentKey(cfg_file.doc) = "none"

\* C15, amended: for a document that deserializes (it has a release_rules table
\* whose keys are among major, minor, patch and whose formats are regex or
\* peg), try_parse fails with the missing-level error naming the first absent
\* level in the order major, minor, patch whenever one is absent, and returns
\* the rule set exactly when all three are present; a document that does not
\* deserialize fails with the deserialization error whatever levels it lacks.
C15_AbsentLevelReportedWhenDocumentDeserializes ==
    (bpc = "parsed" /\ cfg_file.found)
        => /\ (Deserializes(cfg_file.doc) /\ FirstAbsentKey(cfg_file.doc) # "none")
                => /\ ~parsed.ok
                   /\ parsed.error = "IncorrectReleaseAction"
                   /\ parsed.message = MissingMessage(FirstAbsentKey(cfg_file.doc))
           /\ parsed.ok <=> (Deserializes(cfg_file.doc)
                                /\ FirstAbsentKey(cfg_file.doc) = "none")
           /\ parsed.ok => DOMAIN parsed.rules = Levels
           /\ ~Deserializes(cfg_file.doc) => parsed.error = "ErrorReadingToml"

\* try_parse has answered "minor is missing" for a document that lacks both
\* minor and patch
C15_Witness ==
    /\ bpc = "parsed"
    /\ cfg_file.found
    /\ cfg_file.doc.section
    /\ DOMAIN cfg_file.doc.release_rules = {"major"}
    /\ parsed.error = "IncorrectReleaseAction"
    /\ parsed.message = "minor is missing"

\* C16: every rule set that try_parse or build returns has one rule for each of
\* Major, Minor, Patch, each with a non-empty grammar; a file in which a rule
\* has the grammar "" is rejected.
C16_ReturnedRulesHaveNonEmptyGrammars ==
    /\ (bpc = "parsed" /\ parsed.ok)
          => /\ DOMAIN parsed.rules = Levels
             /\ \A l \in Levels : ~parsed.rules[l].grammar.empty
    /\ bpc = "built"
          => /\ DOMAIN plugin_rules = Levels
             /\ \A l \in Levels : ~plugin_rules[l].grammar.empty

\* a rule of the document has a format that is neither "regex" nor "peg"
HasUnknownFormat(doc) ==
    /\ doc.section
    /\ \E k \in DOMAIN doc.release_rules : doc.release_rules[k].format \notin {"regex", "peg"}

\* C26: try_parse of a document in which the format of a rule is neither
\* "regex" nor "peg" fails with the deserialization error, not with the
\* missing-level error and not with a rule set, whichever levels the document
\* contains.
C26_UnknownFormatFailsDeserialization ==
    (bpc = "parsed" /\ cfg_file.found /\ HasUnknownFormat(cfg_file.doc))
        => /\ ~parsed.ok
           /\ parsed.error = "ErrorReadingToml"
           /\ parsed.message = "none"
           /\ parsed.rules = <<>>

\* try_parse has answered for a document that holds only major, with the
\* format "rege"
C26_Witness ==
    /\ bpc = "parsed"
    /\ cfg_file.found
    /\ cfg_file.doc.section
    /\ DOMAIN cfg_file.doc.release_rules = {"major"}
    /\ cfg_file.doc.release_rules["major"].format = "rege"
    /\ parsed.error = "ErrorReadingToml"

\* no configuration file is available: the context names no path, or the path
\* it names leads to no file
NoDocumentAvailable == cfg_path # "string" \/ ~cfg_file.found

\* C17, as stated: when no configuration file is available, build succeeds
\* with the default rules.
C17_NoDocumentGivesDefault ==
    (bpc \in {"built", "failed"} /\ NoDocumentAvailable)
        => /\ bpc = "built"
           /\ build_error = "none"
           /\ plugin_rules = DefaultRules

\* C17, amended: when the context names no path, build succeeds with the
\* default rules and returns no error; when it names a path that leads to no
\* file, build fails with the I/O error of try_parse and builds no plugin.
C17_NoPathGivesDefaultAndMissingFileFails ==
    bpc \in {"built", "failed"}
        => /\ cfg_path # "string"
                => /\ bpc = "built"
                   /\ build_error = "none"
                   /\ plugin_rules = DefaultRules
           /\ (cfg_path = "string" /\ ~cfg_file.found)
                => /\ bpc = "failed"
                   /\ build_error = "InputOutputError"
                   /\ plugin_rules = <<>>

\* build has returned the default rules for a context without a path
C17_Witness ==
    /\ bpc = "built"
    /\ cfg_path = "no_file_entry"
    /\ plugin_rules = DefaultRules

\* C18: when the context names a file and try_parse rejects it (a level is
\* missing, or the document does not deserialize, as with an unknown format),
\* build returns that error and no plugin: the default rules are not used.
C18_RejectedDocumentFailsBuild ==
    (/\ bpc \in {"built", "failed"}
     /\ cfg_path = "string"
     /\ cfg_file.found
     /\ ~try_parse(cfg_file).ok)
        => /\ bpc = "failed"
           /\ build_error = try_parse(cfg_file).error
           /\ build_error \in {"IncorrectReleaseAction", "ErrorReadingToml"}
           /\ plugin_rules = <<>>

\* build has failed on a file whose only flaw is the unknown format "rege"
C18_Witness ==
    /\ bpc = "failed"
    /\ cfg_path = "string"
    /\ cfg_file.found
    /\ cfg_file.doc.section
    /\ DOMAIN cfg_file.doc.release_rules = LevelKeys
    /\ cfg_file.doc.release_rules["minor"].format = "rege"
    /\ build_error = "ErrorReadingToml"

(***************************************************************************)
(* Properties of the versioner (SpecVersioner)                             *)
(***************************************************************************)
TagCommandsExecuted ==
    \E n \in 1..Len(git_log) : git_log[n] \in {"git tag", "git push --tags"}

\* the context holds no release action, or a last tag that does not parse
NoDecisionOrBadTag ==
    \/ v_ctx.release_action \notin Levels
    \/ (v_ctx.last_tag.kind = "value" /\ ~TryFromResult(v_ctx.last_tag.identifier).ok)

\* git tag and git push --tags are executed only with a release action in the
\* context, after the last tag parsed and was incremented to the tag run holds
TagOnlyAfterParseAndIncrement ==
    TagCommandsExecuted
        => /\ v_ctx.release_action \in Levels
           /\ v_ctx.last_tag.kind = "value"
           /\ TryFromResult(v_ctx.last_tag.identifier).ok
           /\ ~increment(TryFromResult(v_ctx.last_tag.identifier).tag,
                         v_ctx.release_action, v_ctx.overflow_checks).panicked
           /\ v_tag = increment(TryFromResult(v_ctx.last_tag.identifier).tag,
                                v_ctx.release_action, v_ctx.overflow_checks).tag

\* C19: no tag is created or pushed unless the context holds a release action
\* and the last tag parses; when the release action is absent or the last tag
\* does not parse, run returns an error and commit_tag executes nothing;
\* commit_tag comes after a successful parse and increment.
C19_NoTagWithoutDecisionAndRunReturnsError ==
    /\ TagOnlyAfterParseAndIncrement
    /\ (vpc # "start" /\ NoDecisionOrBadTag)
          => /\ vpc = "error"
             /\ v_error # "none"
             /\ git_log = <<>>

(***************************************************************************)
(* Properties of ReleaseRule::handle (SpecHandle)                          *)
(***************************************************************************)
\* C20: under the default rules a header whose type belongs to the rule and
\* whose description is well formed matches for every non-empty scope between
\* the parentheses (one character included) and without a scope, and does not
\* match with empty parentheses.
C20_EveryNonEmptyScopeMatches ==
    (/\ hpc = "handled"
     /\ h_message.type \in h_rule.grammar.types
     /\ ~h_message.gap
     /\ h_message.separator = <<":", " ">>
     /\ LowerOrDigit(h_message.description[Len(h_message.description)]))
        => /\ (h_message.scope.present /\ h_message.scope.text # <<>>) => h_result = "Ok"
           /\ ~h_message.scope.present => h_result = "Ok"
           /\ (h_message.scope.present /\ h_message.scope.text = <<>>)
                 => h_result = "ErrorNoMatch"

\* what the default grammars do: the scope needs two or more characters, the
\* first and the last not white space
ScopeAccepted(scope) ==
    \/ ~scope.present
    \/ /\ Len(scope.text) >= 2
       /\ NotSpace(scope.text[1])
       /\ NotSpace(scope.text[Len(scope.text)])

HandleOfDefaultRules ==
    hpc = "handled" =>
        (h_result = "Ok"
            <=> /\ h_message.type \in h_rule.grammar.types
                /\ ~h_message.gap
                /\ ScopeAccepted(h_message.scope)
                /\ h_message.separator \in {<<":", " ">>, <<":", "\t">>}
                /\ LowerOrDigit(h_message.description[Len(h_message.description)]))

\* the separator ':' plus one white space
ColonAndSpace(sep) == Len(sep) = 2 /\ sep[1] = ":" /\ IsSpace(sep[2])

\* a scope as the claim means it: none, or a text without white space between
\* the parentheses
PlainScope(scope) ==
    \/ ~scope.present
    \/ /\ scope.text # <<>>
       /\ \A q \in 1..Len(scope.text) : NotSpace(scope.text[q])

\* C21: a rule does not match a message whose type is outside its alternation,
\* nor one with a space between the type and the scope, nor one without the
\* ':' plus white space separator; it matches a message whose type is in the
\* alternation, with or without a scope, followed by the separator and a
\* description ending in a lowercase letter or digit.
C21_RuleMatchesExactlyConventionalHeaders ==
    hpc = "handled" =>
        /\ h_message.type \notin h_rule.grammar.types => h_result = "ErrorNoMatch"
        /\ (h_message.gap /\ h_message.scope.present) => h_result = "ErrorNoMatch"
        /\ ~ColonAndSpace(h_message.separator) => h_result = "ErrorNoMatch"
        /\ (/\ h_message.type \in h_rule.grammar.types
            /\ ~h_message.gap
            /\ PlainScope(h_message.scope)
            /\ ColonAndSpace(h_message.separator)
            /\ LowerOrDigit(h_message.description[Len(h_message.description)]))
              => h_result = "Ok"

\* the types the claim gives to each level
ClaimedTypes(l) ==
    CASE l = "Major" -> {T_break}
      [] l = "Minor" -> {T_build, T_ci, T_docs, T_feat}
      [] l = "Patch" -> {T_fix, T_perf, T_refac, T_sec, T_style, T_test}

\* a header of the conventional shape without a scope
PlainHeader(h) ==
    /\ ~h.gap
    /\ ~h.scope.present
    /\ h.separator = <<":", " ">>
    /\ LowerOrDigit(h.description[Len(h.description)])

\* C27: default() has exactly the levels Major, Minor, Patch, each of format
\* Regex; its Major rule accepts the type break only, its Minor rule exactly
\* build, ci, docs, feat and its Patch rule exactly fix, perf, refac, sec,
\* style, test.
C27_DefaultRulesAcceptTheListedTypes ==
    /\ DOMAIN DefaultRules = Levels
    /\ \A l \in Levels : DefaultRules[l].format = "Regex"
    /\ (hpc = "handled" /\ PlainHeader(h_message))
          => \A l \in Levels :
                h_rule = DefaultRules[l]
                    => (h_result = "Ok" <=> h_message.type \in ClaimedTypes(l))

\* the Patch rule of default() has accepted a header of type sec
C27_Witness ==
    /\ hpc = "handled"
    /\ PlainHeader(h_message)
    /\ h_rule = DefaultRules["Patch"]
    /\ h_message.type = T_sec
    /\ h_result = "Ok"

\* execute with the three rules evaluated in the given order
executeInOrder(release_rule, order, message) ==
    LET h1 == handle(release_rule[order[1]], message)
        h2 == handle(release_rule[order[2]], message)
        h3 == handle(release_rule[order[3]], message)
    IN IF h1 = "Panic" THEN "Panic"
       ELSE IF h1 = "Ok" THEN order[1]
       ELSE IF h2 = "Panic" THEN "Panic"
       ELSE IF h2 = "Ok" THEN order[2]
       ELSE IF h3 = "Panic" THEN "Panic"
       ELSE IF h3 = "Ok" THEN order[3]
       ELSE "ErrorNoMatching"

LevelOrders == {o \in [1..3 -> Levels] : \A i, j \in 1..3 : o[i] = o[j] => i = j}

\* C30: the types of the Major, Minor and Patch rules of default() are pairwise
\* disjoint; no message is accepted by the rules of two levels, and execute
\* returns the same level under every evaluation order of the three rules.
C30_DefaultTypeSetsDisjoint ==
    /\ \A a, b \in Levels :
          a # b => DefaultRules[a].grammar.types \cap DefaultRules[b].grammar.types = {}
    /\ hpc = "handled"
          => /\ Cardinality({l \in Levels :
                    handle(DefaultRules[l], MessageText(h_message)) = "Ok"}) <= 1
             /\ \A o \in LevelOrders :
                   executeInOrder(DefaultRules, o, MessageText(h_message))
                       = execute(DefaultRules, MessageText(h_message))

\* a header with a scope accepted by the Minor rule, and by no other
C30_Witness ==
    /\ hpc = "handled"
    /\ h_rule = DefaultRules["Minor"]
    /\ h_message.scope.present
    /\ h_result = "Ok"
    /\ execute(DefaultRules, MessageText(h_message)) = "Minor"

(***************************************************************************)
(* Properties of the version tag (SpecTag)                                 *)
(***************************************************************************)
\* the whole string has the shape v<digits>.<digits>.<digits>, with the
\* separators at positions i and j
HasTagShapeAt(s, i, j) ==
    /\ Len(s) >= 6
    /\ s[1] = "v"
    /\ 3 <= i /\ i + 2 <= j /\ j + 1 <= Len(s)
    /\ s[i] = "." /\ s[j] = "."
    /\ \A q \in (2..Len(s)) \ {i, j} : s[q] \in Digit

HasTagShape(s) == \E i \in 1..Len(s), j \in 1..Len(s) : HasTagShapeAt(s, i, j)

\* the number a string of digits denotes
RECURSIVE DecimalValue(_)
DecimalValue(d) ==
    IF Len(d) = 0 THEN 0
    ELSE 10 * DecimalValue(SubSeq(d, 1, Len(d) - 1)) + DigitValue(d[Len(d)])

CanonicalNumber(d) ==
    /\ Len(d) >= 1
    /\ (Len(d) = 1 \/ d[1] # "0")
    /\ DecimalValue(d) <= U64Max

\* v<major>.<minor>.<patch>, no leading zeros, each number representable
IsCanonical(s) ==
    \E i \in 1..Len(s), j \in 1..Len(s) :
        /\ HasTagShapeAt(s, i, j)
        /\ CanonicalNumber(SubSeq(s, 2, i - 1))
        /\ CanonicalNumber(SubSeq(s, i + 1, j - 1))
        /\ CanonicalNumber(SubSeq(s, j + 1, Len(s)))

\* C3: try_from accepts a string only if the whole string has the shape
\* v<digits>.<digits>.<digits> with a literal dot in both separator positions,
\* and rejects a string of that shape for no other reason than a number that
\* does not fit the integer type.
C3_AcceptsExactlyTheTagShape ==
    /\ tpc = "parsed" => HasTagShape(tag_input)
    /\ (tpc = "rejected" /\ HasTagShape(tag_input)) => tag_error = "ParsingError"

\* C4: an increment that returned gave (major+1, 0, 0) for Major,
\* (major, minor+1, 0) for Minor and (major, minor, patch+1) for Patch.
C4_IncrementFormula ==
    (n_incr > 0 /\ tpc = "parsed") =>
        tag = CASE last_level = "Major" ->
                      [major |-> prev_tag.major + 1, minor |-> 0, patch |-> 0]
                [] last_level = "Minor" ->
                      [major |-> prev_tag.major, minor |-> prev_tag.minor + 1, patch |-> 0]
                [] last_level = "Patch" ->
                      [major |-> prev_tag.major, minor |-> prev_tag.minor,
                       patch |-> prev_tag.patch + 1]

\* C5: every increment call returns a tag: it does not panic, and the component
\* it incremented has not wrapped around to 0.
C5_IncrementIsTotal ==
    n_incr > 0 =>
        /\ tpc = "parsed"
        /\ last_level = "Major" => tag.major # 0
        /\ last_level = "Minor" => tag.minor # 0
        /\ last_level = "Patch" => tag.patch # 0

\* C25: a rejected try_from returns ErrorNoMatch exactly when the string does
\* not have the tag shape v<digits>.<digits>.<digits>, and ParsingError exactly
\* when it has the shape but a number does not fit the integer type; try_from
\* returns a tag with its three numbers or an error, never a tag filled in part.
C25_TwoErrorsByShapeAndRange ==
    /\ tpc = "rejected"
          => /\ tag_error \in {"ErrorNoMatch", "ParsingError"}
             /\ tag_error = "ErrorNoMatch" <=> ~HasTagShape(tag_input)
             /\ tag_error = "ParsingError" <=> HasTagShape(tag_input)
             /\ tag = NoTag
    /\ (tpc = "parsed" /\ n_incr = 0)
          => /\ tag_error = "none"
             /\ \A f \in {tag.major, tag.minor, tag.patch} : f \in 0..U64Max

\* what try_from does: ErrorNoMatch exactly when the regex, whose separators
\* match any character, finds no match, ParsingError exactly when it matches
\* and a captured number does not fit; no tag comes with an error
TryFromErrorsByRegexAndRange ==
    /\ tpc = "rejected"
          => /\ tag_error \in {"ErrorNoMatch", "ParsingError"}
             /\ tag_error = "ErrorNoMatch" <=> TagSplits(tag_input) = {}
             /\ tag_error = "ParsingError"
                   <=> /\ TagSplits(tag_input) # {}
                       /\ \E f \in {TagCaptures(tag_input).major,
                                      TagCaptures(tag_input).minor,
                                      TagCaptures(tag_input).patch} : DecimalValue(f) > U64Max
             /\ tag = NoTag
    /\ (tpc = "parsed" /\ n_incr = 0)
          => /\ tag_error = "none"
             /\ \A f \in {tag.major, tag.minor, tag.patch} : f \in 0..U64Max

\* C28: after any sequence of increments that returned, the tag is a valid
\* tag: its numbers are in the range of the integer type, try_from accepts its
\* rendering and gives the tag back; and an increment of a tag with no number
\* at the maximum returns, with another tag, whatever the level.
C28_IncrementKeepsTagValid ==
    /\ tpc = "parsed"
          => /\ tag.major \in 0..U64Max /\ tag.minor \in 0..U64Max /\ tag.patch \in 0..U64Max
             /\ rendered # <<>>
                   => TryFromResult(rendered) = [ok |-> TRUE, error |-> "none", tag |-> tag]
    /\ (/\ n_incr > 0
        /\ prev_tag.major < U64Max /\ prev_tag.minor < U64Max /\ prev_tag.patch < U64Max)
          => /\ tpc = "parsed"
             /\ tag # prev_tag

\* a tag after MaxIncrements increments of which the last was Minor, rendered
\* and read back
C28_Witness ==
    /\ tpc = "parsed"
    /\ n_incr = MaxIncrements
    /\ last_level = "Minor"
    /\ tag.major > 0
    /\ rendered # <<>>
    /\ TryFromResult(rendered).tag = tag

LexLess(a, b) ==
    \/ a.major < b.major
    \/ a.major = b.major /\ a.minor < b.minor
    \/ a.major = b.major /\ a.minor = b.minor /\ a.patch < b.patch

\* C6: the tag an increment returns is strictly greater than the tag it was
\* called on, in the lexicographic order of (major, minor, patch).
C6_IncrementStrictlyGreater ==
    (n_incr > 0 /\ tpc = "parsed") => LexLess(prev_tag, tag)

\* C7: a canonical tag string is accepted by try_from, and the Display of the
\* tag it yields is the string itself.
C7_RoundTrip ==
    IsCanonical(tag_input) =>
        /\ tpc # "rejected"
        /\ (n_incr = 0 /\ rendered # <<>>) => rendered = tag_input

\* a canonical string with numbers of two digits, parsed and rendered
C7_Witness ==
    /\ IsCanonical(tag_input)
    /\ Len(tag_input) >= 8
    /\ tpc = "parsed"
    /\ n_incr = 0
    /\ rendered = tag_input

(***************************************************************************)
(* Properties of the order of ReleaseAction and of the changelog           *)
(***************************************************************************)
\* the place of a variant in the declaration of ReleaseAction
DeclaredPosition(level) ==
    CASE level = "Major" -> 1
      [] level = "Minor" -> 2
      [] level = "Patch" -> 3

\* the lines of a section, title or commit, among some lines
IsSectionLine(line) == line.kind \in {"title", "commit"}

IsSuffix(before, content) ==
    /\ Len(before) <= Len(content)
    /\ SubSeq(content, Len(content) - Len(before) + 1, Len(content)) = before

\* C29: after a call of serialize the content the file had before the call is
\* still there, complete and unchanged, at the end of the file, and when the
\* call returned Ok the file is the new entry followed by that content.
C29_EntryOnTopOfPreviousContent ==
    cpc \in {"written", "failed", "panicked"} =>
        /\ IsSuffix(cl_before, cl_file.content)
        /\ cpc = "written" =>
              /\ cl_file.exists
              /\ cl_file.content = cl_entry \o cl_before

\* the headers of the file, from the top
HeadersOf(content) == SelectSeq(content, LAMBDA line : line.kind = "header")

\* what holds of the calls that return Ok: the file is the new entry followed
\* by the previous content, and after any sequence of such calls the headers
\* are those of all the releases, the most recent first
SerializeOkPrepends ==
    cpc = "written" =>
        /\ cl_file.exists
        /\ cl_file.content = cl_entry \o cl_before
        /\ HeadersOf(cl_file.content)
              = [i \in 1..cl_new_tag |-> HeaderLine(cl_new_tag + 1 - i)]

====
